---- MODULE Spec2Model ----
(***************************************************************************)
(* rides-api: role-gated CRUD over users, rides and ride events, the       *)
(* 24-hour default window of RideEvent.objects, the cascade deletes of     *)
(* the foreign keys, and the cached-count limit/offset pagination of the   *)
(* ride list.  One request is one step; the clock moves between requests.  *)
(***************************************************************************)
EXTENDS Integers, Sequences, FiniteSets, TLC

\* ---------------------------------------------------------------- bounds
MaxUsers == 2       \* user ids ever assigned (AutoField never reuses one)
MaxRides == 2       \* ride ids ever assigned
MaxEvents == 2      \* ride-event ids ever assigned
MaxDays == 1        \* whole 24-hour periods the clock may advance
MaxHalfTtl == 2     \* half cache lifetimes the clock may advance within a period

\* ------------------------------------------------------ program constants
WINDOW == 24 * 3600          \* timedelta(hours=24), in seconds
CACHE_TIMEOUT == 300         \* cache.set(cache_key, count, 300)
default_limit == 20
max_limit == 100

ROLE_CHOICES == {"driver", "passenger", "admin"}
STATUS_CHOICES == {"en-route", "pickup", "dropoff"}

\* ------------------------------------------------------------ input sets
None == "None"
AnonymousUser == 0
UserIds == 1..MaxUsers
RideIds == 1..MaxRides
EventIds == 1..MaxEvents
Emails == {"a@x.io", "b@x.io"}
Usernames == {"admin", "bob"}
\* passwords of eight and of seven characters
Password8 == <<"p", "a", "s", "s", "w", "o", "r", "d">>
Password7 == <<"s", "e", "c", "r", "e", "t", "1">>
\* the same passwords behind a leading blank: 9 and 8 characters
Padded8 == <<" ">> \o Password8
Padded7 == <<" ">> \o Password7
PickupTimes == {1, 2}
\* descriptions and search keywords are strings of characters
Descriptions == {<<"P", "i", "c", "k", "u", "p">>, <<"R", "i", "d", "e">>}
Keywords == {<<"p", "i", "c", "k">>, <<"R", "I">>}
\* the instants at which the model samples the clock: whole windows plus half
\* cache lifetimes
InstantsOf(days, halves) ==
    {d * WINDOW + h * (CACHE_TIMEOUT \div 2) : d \in 0..days, h \in 0..halves}

VARIABLES
    users,      \* table rides_user:      id_user -> [username, password, role, email,
                \*                                    date_joined]
    rides,      \* table rides_ride:      id_ride -> [status, id_rider, id_driver,
                \*                   pickup_latitude, pickup_longitude, pickup_time]
    events,     \* table rides_rideevent: id_ride_event -> [id_ride, description, created_at]
    seq,        \* the AutoField sequences: [user, ride, event] -> last id assigned
    cache,      \* django cache: cache_key -> [count, expires]
    now,        \* timezone.now(), seconds
    tokens,     \* table authtoken_token: the users that have a token
    inflight,   \* requests handled step by step: process -> [op, pc, ...], the
                \* position of each in its handler and what it holds so far
    last        \* the step just taken: the request and its response

vars == <<users, rides, events, seq, cache, now, tokens, inflight, last>>
tables == <<users, rides, events, seq>>

\* ------------------------------------------------------------ permissions
\* variants of the gate: the role test left out, and staff roles let through
has_permission_allow_any(user) == TRUE
has_permission_any_authenticated(user) == user # AnonymousUser
has_permission_staff(user) ==
    IF user = AnonymousUser THEN FALSE ELSE users[user].role \in {"admin", "driver"}

\* IsAdmin.has_permission: request.user is the anonymous user or a stored user
has_permission(user) ==
    IF user = AnonymousUser
    THEN FALSE
    ELSE users[user].role = "admin"

Callers == {AnonymousUser} \cup DOMAIN users

\* ------------------------------------------------------------- responses
\* list and create address no row
NoId == 0

Idle == [resource |-> None, op |-> None, caller |-> AnonymousUser, id |-> NoId,
         data |-> None, status |-> None, body |-> None]

\* the request (endpoint, caller, the id of its URL) and the response to it
Response(resource, op, caller, id, status, body) ==
    [resource |-> resource, op |-> op, caller |-> caller, id |-> id,
     data |-> None, status |-> status, body |-> body]

\* ... of a request that carries data (request.data of POST, PUT and PATCH)
Request(data, response) == [response EXCEPT !.data = data]

\* the read-only fields a client may send along: the id of the row and its
\* timestamp (date_joined, created_at), or none
NotSupplied == [given |-> FALSE, id |-> 0, stamp |-> 0]
Supplied == [given |-> TRUE, id |-> 9, stamp |-> 7]

\* APIView.initial -> check_permissions -> permission_denied: the same response
\* for every handler, raised before the handler runs
Denied(resource, op, caller, id) ==
    Response(resource, op, caller, id, "denied",
             "You do not have permission to perform this action.")

\* a missing row answered as an empty success
NotFound_empty_ok(resource, op, caller, id) ==
    Response(resource, op, caller, id, "ok", None)

NotFound(resource, op, caller, id) ==
    Response(resource, op, caller, id, "not_found", "Not found.")

Rejects(resource, op, caller, id) ==
    /\ ~has_permission(caller)
    /\ last' = Denied(resource, op, caller, id)
    /\ UNCHANGED <<users, rides, events, seq, cache, now, tokens, inflight>>

\* the server answers one request at a time: a request is taken when no
\* response is pending, and Respond hands the pending response to the client
Ready == last.status = None

Respond ==
    /\ last.status # None
    /\ last' = Idle
    /\ UNCHANGED <<users, rides, events, seq, cache, now, tokens, inflight>>

\* ----------------------------------------------------------- map helpers
Without(f, ks) == [k \in DOMAIN f \ ks |-> f[k]]
With(f, k, v) == [x \in DOMAIN f \cup {k} |-> IF x = k THEN v ELSE f[x]]

Min(a, b) == IF a < b THEN a ELSE b

\* ------------------------------------------------- RideEvent manager paths
\* variant: created_at__gt in place of created_at__gte
get_queryset_gt == {e \in DOMAIN events : events[e].created_at > now - WINDOW}

\* RideEventManager.get_queryset: created_at >= timezone.now() - timedelta(hours=24)
\* variant: the default path without the window
RideEventManager_get_queryset_any_age == DOMAIN events

RideEventManager_get_queryset ==
    {e \in DOMAIN events : events[e].created_at >= now - WINDOW}

\* RideEventManager.all_unfiltered: the base queryset, no window
all_unfiltered == DOMAIN events

\* variant: self.filter(id_ride=ride), which goes through the windowed get_queryset
for_ride_through_default(ride) ==
    {e \in RideEventManager_get_queryset : events[e].id_ride = ride}

\* RideEventManager.for_ride: the base queryset filtered by parent ride
for_ride(ride) == {e \in DOMAIN events : events[e].id_ride = ride}

\* description__icontains: case-insensitive substring of the description
Lower(c) ==
    CASE c = "P" -> "p" [] c = "R" -> "r" [] c = "I" -> "i" [] OTHER -> c
IContains(text, kw) ==
    \E i \in 1..(Len(text) - Len(kw) + 1) :
        \A j \in 1..Len(kw) : Lower(text[i + j - 1]) = Lower(kw[j])

\* RideEvent.objects.filter(description__icontains=kw): on top of the default path
filter_description(kw) ==
    {e \in RideEventManager_get_queryset : IContains(events[e].description, kw)}

\* variant: a reverse manager built on the base manager
ride_events_base(ride) == {e \in DOMAIN events : events[e].id_ride = ride}

\* ride.events (related_name='events'): the reverse manager is built on the
\* default manager, so the window applies, then the parent filter
ride_events(ride) ==
    {e \in RideEventManager_get_queryset : events[e].id_ride = ride}

\* ---------------------------------------------------------------- cascade
\* on_delete=CASCADE of Ride.id_rider and Ride.id_driver
rides_of_users(us) ==
    {r \in DOMAIN rides : rides[r].id_rider \in us \/ rides[r].id_driver \in us}

\* variant: the events to delete collected through the default (windowed) manager
events_of_rides_windowed(rs) ==
    {e \in RideEventManager_get_queryset : events[e].id_ride \in rs}

\* on_delete=CASCADE of RideEvent.id_ride (collected through the base manager)
events_of_rides(rs) == {e \in DOMAIN events : events[e].id_ride \in rs}

\* ------------------------------------------------------------ serializers
\* UserSmallListSerializer (first_name, last_name are not modelled)
UserSmallListSerializer(u) ==
    [id_user |-> u, username |-> users[u].username, role |-> users[u].role]

\* UserSerializer (first_name, last_name, phone_number, is_active are not modelled)
UserSerializer(u, row) ==
    [id_user |-> u, username |-> row.username, email |-> row.email, role |-> row.role,
     date_joined |-> row.date_joined]

\* UserCreateSerializer with password readable
UserCreateSerializer_readable(row) ==
    [username |-> row.username, email |-> row.email, role |-> row.role,
     password |-> row.password]

\* UserCreateSerializer: no id_user among its fields, password is write_only
UserCreateSerializer(row) ==
    [username |-> row.username, email |-> row.email, role |-> row.role]

\* RideEventSerializer
RideEventSerializer(e, row) ==
    [id_ride_event |-> e, id_ride |-> row.id_ride,
     description |-> row.description, created_at |-> row.created_at]

\* RideSerializer: id_rider and id_driver are write_only, rider and driver nested
RideSerializer(r, row) ==
    [id_ride |-> r, status |-> row.status,
     rider |-> UserSmallListSerializer(row.id_rider),
     driver |-> UserSmallListSerializer(row.id_driver),
     pickup_latitude |-> row.pickup_latitude,
     pickup_longitude |-> row.pickup_longitude,
     pickup_time |-> row.pickup_time]

\* RideListSerializer: events = RideEventSerializer(many=True) over ride.events
RideListSerializer(r) ==
    [id_ride |-> r, status |-> rides[r].status,
     id_rider |-> rides[r].id_rider, id_driver |-> rides[r].id_driver,
     pickup_time |-> rides[r].pickup_time,
     events |-> {RideEventSerializer(e, events[e]) : e \in ride_events(r)}]

\* RideDetailSerializer
RideDetailSerializer(r) ==
    [id_ride |-> r, status |-> rides[r].status,
     rider |-> UserSmallListSerializer(rides[r].id_rider),
     driver |-> UserSmallListSerializer(rides[r].id_driver),
     pickup_latitude |-> rides[r].pickup_latitude,
     pickup_longitude |-> rides[r].pickup_longitude,
     pickup_time |-> rides[r].pickup_time,
     events |-> {RideEventSerializer(e, events[e]) : e \in ride_events(r)}]

\* ------------------------------------------------------------ UserViewSet
\* GET /users/ : UserSmallListSerializer over User.objects.all()
UserList(caller) ==
    IF ~has_permission(caller) THEN Rejects("users", "list", caller, NoId)
    ELSE /\ last' = Response("users", "list", caller, NoId, "ok",
                             {UserSmallListSerializer(u) : u \in DOMAIN users})
         /\ UNCHANGED <<users, rides, events, seq, cache, now, tokens, inflight>>

\* GET /users/{id}/
UserRetrieve(caller, id) ==
    IF ~has_permission(caller) THEN Rejects("users", "retrieve", caller, id)
    ELSE /\ last' = IF id \in DOMAIN users
                    THEN Response("users", "retrieve", caller, id, "ok",
                                  UserSerializer(id, users[id]))
                    ELSE NotFound("users", "retrieve", caller, id)
         /\ UNCHANGED <<users, rides, events, seq, cache, now, tokens, inflight>>

\* django.contrib.auth.hashers: the stored credential is the algorithm tag
\* followed by the digest, which stands for the text it was computed from
make_password(password) == <<"pbkdf2_sha256$">> \o password
check_password(password, encoded) == encoded = make_password(password)

\* the request sends no password (or an empty one)
NoPassword == << >>

\* str.strip(): the text without its leading and trailing blanks
RECURSIVE strip(_)
strip(text) ==
    IF text = << >> THEN text
    ELSE IF Head(text) = " " THEN strip(Tail(text))
    ELSE IF text[Len(text)] = " " THEN strip(SubSeq(text, 1, Len(text) - 1))
    ELSE text

\* CharField.to_internal_value: trim_whitespace is left at its default, True
to_internal_value(text) == strip(text)

\* UserCreateSerializer validation: password = CharField(min_length=8), whose
\* validators see the trimmed value and which is required and not blank, the
\* unique username of AbstractUser, the choices of role
user_create_errors(username, password, role) ==
    {f \in {"username"} : \E u \in DOMAIN users : users[u].username = username}
    \cup {f \in {"password"} : Len(to_internal_value(password)) < 8}
    \cup {f \in {"role"} : role \notin ROLE_CHOICES}

\* POST /users/ : UserCreateSerializer.create -> User.objects.create_user
UserCreate(caller, username, password, role, email, read_only) ==
    IF ~has_permission(caller) THEN Rejects("users", "create", caller, NoId)
    ELSE LET data == [username |-> username, password |-> password, role |-> role,
                      email |-> email, read_only |-> read_only]
             errors == user_create_errors(username, password, role)
             id == seq.user + 1
             row == [username |-> username,
                     password |-> make_password(to_internal_value(password)),
                     role |-> role, email |-> email, date_joined |-> now]
         IN IF errors # {}
            THEN /\ last' = Request(data, Response("users", "create", caller, NoId,
                                                   "bad_request", errors))
                 /\ UNCHANGED <<users, rides, events, seq, cache, now, tokens, inflight>>
            ELSE /\ seq.user < MaxUsers
                 /\ users' = With(users, id, row)
                 /\ seq' = [seq EXCEPT !.user = id]
                 /\ last' = Request(data, Response("users", "create", caller, NoId,
                                                   "created", UserCreateSerializer(row)))
                 /\ UNCHANGED <<rides, events, cache, now, tokens, inflight>>

\* UserSerializer validation on update: the username stays unique, the choices
\* of role
user_update_errors(id, row) ==
    {f \in {"username"} :
        \E u \in DOMAIN users \ {id} : users[u].username = row.username}
    \cup {f \in {"role"} : row.role \notin ROLE_CHOICES}

\* PUT /users/{id}/ : every writable field of UserSerializer is replaced;
\* id_user and date_joined are read_only_fields, password is not a field
UserUpdate(caller, id, username, role, email, read_only) ==
    IF ~has_permission(caller) THEN Rejects("users", "update", caller, id)
    ELSE IF id \notin DOMAIN users
    THEN /\ last' = NotFound("users", "update", caller, id)
         /\ UNCHANGED <<users, rides, events, seq, cache, now, tokens, inflight>>
    ELSE LET data == [username |-> username, role |-> role, email |-> email,
                      read_only |-> read_only]
             row == [users[id] EXCEPT !.username = username, !.role = role,
                                      !.email = email]
         IN IF user_update_errors(id, row) # {}
            THEN /\ last' = Request(data, Response("users", "update", caller, id,
                                        "bad_request", user_update_errors(id, row)))
                 /\ UNCHANGED <<users, rides, events, seq, cache, now, tokens, inflight>>
            ELSE /\ users' = [users EXCEPT ![id] = row]
                 /\ last' = Request(data, Response("users", "update", caller, id, "ok",
                                                   UserSerializer(id, row)))
                 /\ UNCHANGED <<rides, events, seq, cache, now, tokens, inflight>>

\* UserSerializer with date_joined writable
UserWritable_date_joined == {"username", "role", "email", "date_joined"}

\* the fields of UserSerializer a client can write
UserWritable == {"username", "role", "email"}

\* PATCH /users/{id}/ : only the supplied field is replaced, and only when it is
\* a writable field of UserSerializer
UserPartialUpdate(caller, id, field, value) ==
    IF ~has_permission(caller) THEN Rejects("users", "partial_update", caller, id)
    ELSE IF id \notin DOMAIN users
    THEN /\ last' = NotFound("users", "partial_update", caller, id)
         /\ UNCHANGED <<users, rides, events, seq, cache, now, tokens, inflight>>
    ELSE LET data == [field |-> field, value |-> value]
             row == IF field \in UserWritable
                    THEN [users[id] EXCEPT ![field] = value]
                    ELSE users[id]
         IN IF user_update_errors(id, row) # {}
            THEN /\ last' = Request(data, Response("users", "partial_update", caller, id,
                                        "bad_request", user_update_errors(id, row)))
                 /\ UNCHANGED <<users, rides, events, seq, cache, now, tokens, inflight>>
            ELSE /\ users' = [users EXCEPT ![id] = row]
                 /\ last' = Request(data, Response("users", "partial_update", caller, id,
                                                   "ok", UserSerializer(id, row)))
                 /\ UNCHANGED <<rides, events, seq, cache, now, tokens, inflight>>

\* DELETE /users/{id}/ : the rides of the user and their events go with it, and
\* so does the token of the user (Token.user, on_delete=CASCADE)
UserDestroy(caller, id) ==
    IF ~has_permission(caller) THEN Rejects("users", "destroy", caller, id)
    ELSE IF id \notin DOMAIN users
    THEN /\ last' = NotFound("users", "destroy", caller, id)
         /\ UNCHANGED <<users, rides, events, seq, cache, now, tokens, inflight>>
    ELSE LET gone == rides_of_users({id})
         IN /\ users' = Without(users, {id})
            /\ rides' = Without(rides, gone)
            /\ events' = Without(events, events_of_rides(gone))
            /\ tokens' = tokens \ {id}
            /\ inflight' = inflight
            /\ last' = Response("users", "destroy", caller, id, "no_content", None)
            /\ UNCHANGED <<seq, cache, now>>

\* -------------------------------------------------------- CustomAuthToken
\* AuthTokenSerializer.validate -> authenticate(username=, password=): the users
\* with that username whose stored credential verifies the password
authenticate(username, password) ==
    {u \in DOMAIN users :
        users[u].username = username /\ check_password(password, users[u].password)}

\* POST /auth/login/ : no permission class. With valid credentials the token
\* row is made by Token.objects.get_or_create(user=user), whose result, a pair
\* (token, created), is bound to `token`; token.key then raises AttributeError
Login(username, password) ==
    LET data == [username |-> username, password |-> password]
    IN IF authenticate(username, password) = {}
       THEN /\ last' = Request(data, Response("auth", "login", AnonymousUser, NoId,
                                              "bad_request", {"non_field_errors"}))
            /\ UNCHANGED <<users, rides, events, seq, cache, now, tokens, inflight>>
       ELSE \E user \in authenticate(username, password) :
            /\ tokens' = tokens \cup {user}
            /\ inflight' = inflight
            /\ last' = Request(data, Response("auth", "login", AnonymousUser, NoId,
                                              "server_error",
                                              [exception |-> "AttributeError"]))
            /\ UNCHANGED <<users, rides, events, seq, cache, now>>

\* ------------------------------------------------------------ RideViewSet
\* the resolved query of the ride list: RideViewSet.get_queryset, then
\* DjangoFilterBackend (filterset_fields) and OrderingFilter (ordering_fields,
\* default ordering = ['-pickup_time']); prefetch_related adds nothing to it
resolve_ordering(ordering) ==
    IF ordering \in {"pickup_time", "-pickup_time", "distance", "-distance"}
    THEN ordering
    ELSE "-pickup_time"

\* 'distance' in ordering, for the values of the ordering parameter used here
contains_distance(ordering) == ordering \in {"distance", "-distance"}

\* float(): the texts that parse, and the degrees they denote
IsFloat(text) == text \in {"0", "0.0", "1", "1.0", "3", "8"}
float(text) ==
    CASE text \in {"0", "0.0"} -> 0
      [] text \in {"1", "1.0"} -> 1
      [] text = "3" -> 3
      [] text = "8" -> 8
\* the text of a float in the SQL
float_str(x) == CASE x = 0 -> "0.0" [] x = 1 -> "1.0" [] x = 3 -> "3.0" [] x = 8 -> "8.0"

\* RideViewSet.get_queryset: the reference point of the distance annotation,
\* << >> when the queryset is not annotated
get_queryset(ordering, lat, lng) ==
    IF /\ contains_distance(ordering)
       /\ lat \notin {None, ""} /\ lng \notin {None, ""}
       /\ IsFloat(lat) /\ IsFloat(lng)
    THEN <<float(lat), float(lng)>>
    ELSE << >>

\* DjangoFilterBackend and OrderingFilter applied to get_queryset()
filter_queryset(status, email, ordering, lat, lng) ==
    [status |-> status, id_rider__email |-> email,
     order_by |-> resolve_ordering(ordering),
     distance |-> get_queryset(ordering, lat, lng)]

\* queryset.order_by('distance') on a queryset without the annotation raises
\* FieldError: Cannot resolve keyword 'distance' into field
FieldError(query) ==
    query.order_by \in {"distance", "-distance"} /\ query.distance = << >>

\* the rows a resolved query selects
matching(query) ==
    {r \in DOMAIN rides :
        /\ query.status = None \/ rides[r].status = query.status
        /\ query.id_rider__email = None
              \/ users[rides[r].id_rider].email = query.id_rider__email}

\* _annotate_distance: 6371 * acos(cos(lat) cos(pickup_latitude)
\* cos(pickup_longitude - lng) + sin(lat) sin(pickup_latitude)), evaluated in
\* IEEE doubles for points of one meridian at latitudes 0, 1, 3 and 8 degrees.
\* At a reference point equal to the pickup point the argument of acos is
\* 1.0 at latitudes 0 and 1, 0.9999999999999999 at latitude 3 and
\* 1.0000000000000002 at latitude 8, which is outside the domain of acos.
acos_out_of_domain(ref, r) ==
    ref[1] = 8 /\ rides[r].pickup_latitude = 8

\* the distance in millimetres where acos is defined
annotate_distance(ref, r) ==
    LET a == Min(ref[1], rides[r].pickup_latitude)
        b == IF ref[1] = a THEN rides[r].pickup_latitude ELSE ref[1]
    IN CASE a = b -> IF a = 3 THEN 94 ELSE 0
         [] a = 0 /\ b = 1 -> 111194926
         [] a = 0 /\ b = 3 -> 333584779
         [] a = 0 /\ b = 8 -> 889559413
         [] a = 1 /\ b = 3 -> 222389853
         [] a = 1 /\ b = 8 -> 778364486
         [] a = 3 /\ b = 8 -> 555974633

\* a database whose ACOS yields NULL outside the domain sorts NULL before
\* every number
NULL == -1

\* variant: the '-' prefix of the ordering is dropped
sort_key_unsigned(query, r) ==
    IF query.order_by \in {"pickup_time", "-pickup_time"} THEN rides[r].pickup_time
    ELSE IF acos_out_of_domain(query.distance, r) THEN NULL
    ELSE annotate_distance(query.distance, r)

\* the value the rows are sorted by, ascending
sort_key(query, r) ==
    CASE query.order_by = "pickup_time" -> rides[r].pickup_time
      [] query.order_by = "-pickup_time" -> 0 - rides[r].pickup_time
      [] query.order_by = "distance" ->
            IF acos_out_of_domain(query.distance, r) THEN NULL
            ELSE annotate_distance(query.distance, r)
      [] query.order_by = "-distance" ->
            IF acos_out_of_domain(query.distance, r) THEN 0 - NULL
            ELSE 0 - annotate_distance(query.distance, r)

\* the orders in which the database may return the rows S (ties are not ordered)
RECURSIVE sorted(_, _)
sorted(query, S) ==
    IF S = {} THEN {<< >>}
    ELSE LET keys == {sort_key(query, r) : r \in S}
         IN IF Cardinality(keys) = 1
            THEN UNION {{<<r>> \o rest : rest \in sorted(query, S \ {r})} : r \in S}
            ELSE LET middle == CHOOSE k \in keys :
                                  Cardinality({j \in keys : j < k}) = Cardinality(keys) \div 2
                     before == {r \in S : sort_key(query, r) < middle}
                 IN {head \o tail : head \in sorted(query, before),
                                    tail \in sorted(query, S \ before)}

ordered(query) == sorted(query, matching(query))

\* the database raises on ACOS outside its domain when it evaluates the
\* distance of such a row
DataError(query) ==
    /\ query.distance # << >>
    /\ \E r \in matching(query) : acos_out_of_domain(query.distance, r)

\* str(queryset.query): the SQL text, here its distance column, WHERE and
\* ORDER BY clauses as a string of tokens (parameters are interpolated unquoted)
query_str(query) ==
    LET select == IF query.distance = << >> THEN <<"SELECT">>
                  ELSE <<"SELECT", "distance", float_str(query.distance[1]),
                         float_str(query.distance[2])>>
        by_status == IF query.status = None THEN <<>>
                     ELSE <<"status", "=", query.status>>
        by_email == IF query.id_rider__email = None THEN <<>>
                    ELSE <<"email", "=", query.id_rider__email>>
        where == IF by_status = <<>> /\ by_email = <<>> THEN <<>>
                 ELSE IF by_status = <<>> THEN <<"WHERE">> \o by_email
                 ELSE IF by_email = <<>> THEN <<"WHERE">> \o by_status
                 ELSE <<"WHERE">> \o by_status \o <<"AND">> \o by_email
        order_by == CASE query.order_by = "pickup_time" -> <<"ORDER BY", "pickup_time", "ASC">>
                      [] query.order_by = "-pickup_time" -> <<"ORDER BY", "pickup_time", "DESC">>
                      [] query.order_by = "distance" -> <<"ORDER BY", "distance", "ASC">>
                      [] query.order_by = "-distance" -> <<"ORDER BY", "distance", "DESC">>
    IN select \o where \o order_by

\* variant: a key that leaves the WHERE clause out
cache_key_without_filters(query) ==
    <<"pagination_count_",
      query_str([query EXCEPT !.status = None, !.id_rider__email = None])>>

\* cache_key = 'pagination_count_' + md5(str(queryset.query)); the digest stands
\* for the text it was computed from
cache_key(query) == <<"pagination_count_", query_str(query)>>

\* cache.get(cache_key) is not None: the entry exists and has not expired
cache_hit(key) == key \in DOMAIN cache /\ now < cache[key].expires

\* variant: the count computed on every request
get_count_uncached(query) == Cardinality(matching(query))

\* CachedCountLimitOffsetPagination.get_count: the count it returns
get_count(query) ==
    IF cache_hit(cache_key(query))
    THEN cache[cache_key(query)].count
    ELSE Cardinality(matching(query))

\* variant: cache.set(cache_key, count, None), an entry that never expires
get_count_cache_forever(query) ==
    IF cache_hit(cache_key(query))
    THEN cache
    ELSE With(cache, cache_key(query),
              [count |-> Cardinality(matching(query)), expires |-> now + 1000 * WINDOW])

\* ... and the cache it leaves: on a miss the count is stored for 300 seconds
get_count_cache(query) ==
    IF cache_hit(cache_key(query))
    THEN cache
    ELSE With(cache, cache_key(query),
              [count |-> Cardinality(matching(query)), expires |-> now + CACHE_TIMEOUT])

\* int(): query parameters arrive as text
IsInt(text) == text \in {"0", "1", "2", "3", "21", "100", "200", "1000"}
int(text) ==
    CASE text = "0" -> 0 [] text = "1" -> 1 [] text = "2" -> 2 [] text = "3" -> 3
      [] text = "21" -> 21 [] text = "100" -> 100 [] text = "200" -> 200
      [] text = "1000" -> 1000

\* get_limit without the cutoff at max_limit
get_limit_uncapped(limit) ==
    IF limit = None \/ ~IsInt(limit) THEN default_limit
    ELSE IF int(limit) <= 0 THEN default_limit
    ELSE int(limit)

\* LimitOffsetPagination.get_limit: _positive_int(strict=True, cutoff=max_limit),
\* default_limit when the parameter is missing or not a positive integer
get_limit(limit) ==
    IF limit = None \/ ~IsInt(limit) THEN default_limit
    ELSE IF int(limit) <= 0 THEN default_limit
    ELSE Min(int(limit), max_limit)

\* LimitOffsetPagination.get_offset: 0 when missing or not an integer >= 0
get_offset(offset) ==
    IF offset = None \/ ~IsInt(offset) THEN 0 ELSE int(offset)

\* LimitOffsetPagination.paginate_queryset: queryset[offset:offset + limit], or
\* nothing at all when the count is 0 or the offset is past the count
paginate_queryset(rows, count, limit, offset) ==
    IF count = 0 \/ offset > count
    THEN <<>>
    ELSE SubSeq(rows, offset + 1, Min(offset + limit, Len(rows)))

\* request.query_params.get(name): None when the request does not carry it
query_param(query_params, name) ==
    IF name \in DOMAIN query_params THEN query_params[name] ELSE None

\* GET /rides/ with the query string query_params (name -> text). The view,
\* its filter backends and the paginator read status, id_rider__email,
\* ordering, lat, lng, limit and offset; any other parameter is read by nobody.
\* The response is kept with the parameters of the request it answers.
\* Where ACOS is outside its domain the database either raises (the count has
\* then been computed or not) or yields NULL.
RideListView(caller, query_params) ==
    IF ~has_permission(caller) THEN Rejects("rides", "list", caller, NoId)
    ELSE LET status == query_param(query_params, "status")
             email == query_param(query_params, "id_rider__email")
             ordering == query_param(query_params, "ordering")
             lat == query_param(query_params, "lat")
             lng == query_param(query_params, "lng")
             limit == query_param(query_params, "limit")
             offset == query_param(query_params, "offset")
             query == filter_queryset(status, email, ordering, lat, lng)
             count == get_count(query)
             params == [ordering |-> ordering, lat |-> lat, lng |-> lng,
                        limit |-> limit, offset |-> offset]
             fetched == ~(count = 0 \/ get_offset(offset) > count)
         IN IF FieldError(query)
            THEN /\ last' = Request(query_params,
                               Response("rides", "list", caller, NoId, "server_error",
                                        [params |-> params, exception |-> "FieldError"]))
                 /\ UNCHANGED <<users, rides, events, seq, cache, now, tokens, inflight>>
            ELSE \/ /\ fetched /\ DataError(query)
                    /\ cache' \in {cache, get_count_cache(query)}
                    /\ last' = Request(query_params,
                                  Response("rides", "list", caller, NoId, "server_error",
                                           [params |-> params, exception |-> "DataError"]))
                    /\ UNCHANGED <<users, rides, events, seq, now, tokens, inflight>>
                 \/ \E rows \in ordered(query) :
                      LET page == paginate_queryset(rows, count, get_limit(limit),
                                                    get_offset(offset))
                      IN /\ cache' = get_count_cache(query)
                         /\ last' = Request(query_params,
                                Response("rides", "list", caller, NoId, "ok",
                                   [params |-> params, query |-> query,
                                    limit |-> get_limit(limit),
                                    offset |-> get_offset(offset), count |-> count,
                                    results |-> [i \in 1..Len(page) |->
                                                    RideListSerializer(page[i])]]))
                         /\ UNCHANGED <<users, rides, events, seq, now, tokens, inflight>>

\* GET /rides/?status=&id_rider__email=&ordering=&lat=&lng=&limit=&offset=
RideList(caller, status, email, ordering, lat, lng, limit, offset) ==
    RideListView(caller, [status |-> status, id_rider__email |-> email,
                          ordering |-> ordering, lat |-> lat, lng |-> lng,
                          limit |-> limit, offset |-> offset])

\* GET /rides/{id}/
RideRetrieve(caller, id) ==
    IF ~has_permission(caller) THEN Rejects("rides", "retrieve", caller, id)
    ELSE /\ last' = IF id \in DOMAIN rides
                    THEN Response("rides", "retrieve", caller, id, "ok", RideDetailSerializer(id))
                    ELSE NotFound("rides", "retrieve", caller, id)
         /\ UNCHANGED <<users, rides, events, seq, cache, now, tokens, inflight>>

\* RideSerializer validation that accepts any status
ride_errors_any_status(row) ==
    {f \in {"id_rider", "id_driver"} : row[f] \notin DOMAIN users}

\* RideSerializer validation: PrimaryKeyRelatedField(queryset=User.objects.all())
\* for id_rider and id_driver, the choices of status
ride_errors(row) ==
    {f \in {"id_rider", "id_driver"} : row[f] \notin DOMAIN users}
    \cup {f \in {"status"} : row[f] \notin STATUS_CHOICES}

\* POST /rides/ : id_ride is assigned by the AutoField
RideCreate(caller, status, rider, driver, pickup_latitude, pickup_longitude, pickup_time, read_only) ==
    IF ~has_permission(caller) THEN Rejects("rides", "create", caller, NoId)
    ELSE LET row == [status |-> status, id_rider |-> rider, id_driver |-> driver,
                     pickup_latitude |-> pickup_latitude,
                     pickup_longitude |-> pickup_longitude,
                     pickup_time |-> pickup_time]
             data == [row |-> row, read_only |-> read_only]
             id == seq.ride + 1
         IN IF ride_errors(row) # {}
            THEN /\ last' = Request(data, Response("rides", "create", caller, NoId,
                                                   "bad_request", ride_errors(row)))
                 /\ UNCHANGED <<users, rides, events, seq, cache, now, tokens, inflight>>
            ELSE /\ seq.ride < MaxRides
                 /\ rides' = With(rides, id, row)
                 /\ seq' = [seq EXCEPT !.ride = id]
                 /\ last' = Request(data, Response("rides", "create", caller, NoId,
                                                   "created", RideSerializer(id, row)))
                 /\ UNCHANGED <<users, events, cache, now, tokens, inflight>>

\* PUT /rides/{id}/ : id_ride is a read_only field
RideUpdate(caller, id, status, rider, driver, pickup_latitude, pickup_longitude, pickup_time, read_only) ==
    IF ~has_permission(caller) THEN Rejects("rides", "update", caller, id)
    ELSE IF id \notin DOMAIN rides
    THEN /\ last' = NotFound("rides", "update", caller, id)
         /\ UNCHANGED <<users, rides, events, seq, cache, now, tokens, inflight>>
    ELSE LET row == [status |-> status, id_rider |-> rider, id_driver |-> driver,
                     pickup_latitude |-> pickup_latitude,
                     pickup_longitude |-> pickup_longitude,
                     pickup_time |-> pickup_time]
             data == [row |-> row, read_only |-> read_only]
         IN IF ride_errors(row) # {}
            THEN /\ last' = Request(data, Response("rides", "update", caller, id,
                                                   "bad_request", ride_errors(row)))
                 /\ UNCHANGED <<users, rides, events, seq, cache, now, tokens, inflight>>
            ELSE /\ rides' = [rides EXCEPT ![id] = row]
                 /\ last' = Request(data, Response("rides", "update", caller, id, "ok",
                                                   RideSerializer(id, row)))
                 /\ UNCHANGED <<users, events, seq, cache, now, tokens, inflight>>

\* the fields of RideSerializer a client can write
RideWritable ==
    {"status", "id_rider", "id_driver", "pickup_latitude", "pickup_longitude", "pickup_time"}

\* PATCH /rides/{id}/ : only the supplied field is replaced, and only when it is
\* a writable field of RideSerializer
RidePartialUpdate(caller, id, field, value) ==
    IF ~has_permission(caller) THEN Rejects("rides", "partial_update", caller, id)
    ELSE IF id \notin DOMAIN rides
    THEN /\ last' = NotFound("rides", "partial_update", caller, id)
         /\ UNCHANGED <<users, rides, events, seq, cache, now, tokens, inflight>>
    ELSE LET data == [field |-> field, value |-> value]
             row == IF field \in RideWritable
                    THEN [rides[id] EXCEPT ![field] = value]
                    ELSE rides[id]
         IN IF ride_errors(row) # {}
            THEN /\ last' = Request(data, Response("rides", "partial_update", caller, id,
                                                   "bad_request", ride_errors(row)))
                 /\ UNCHANGED <<users, rides, events, seq, cache, now, tokens, inflight>>
            ELSE /\ rides' = [rides EXCEPT ![id] = row]
                 /\ last' = Request(data, Response("rides", "partial_update", caller, id,
                                                   "ok", RideSerializer(id, row)))
                 /\ UNCHANGED <<users, events, seq, cache, now, tokens, inflight>>

\* DELETE /rides/{id}/ : the events of the ride go with it
RideDestroy(caller, id) ==
    IF ~has_permission(caller) THEN Rejects("rides", "destroy", caller, id)
    ELSE IF id \notin DOMAIN rides
    THEN /\ last' = NotFound("rides", "destroy", caller, id)
         /\ UNCHANGED <<users, rides, events, seq, cache, now, tokens, inflight>>
    ELSE /\ rides' = Without(rides, {id})
         /\ events' = Without(events, events_of_rides({id}))
         /\ last' = Response("rides", "destroy", caller, id, "no_content", None)
         /\ UNCHANGED <<users, seq, cache, now, tokens, inflight>>

\* ------------------------------------------------------- RideEventViewSet
\* RideEventViewSet.get_queryset: RideEvent.objects.select_related(...), the
\* default (windowed) path; get_object looks the id up in it
\* GET /ride-events/
RideEventList(caller) ==
    IF ~has_permission(caller) THEN Rejects("ride-events", "list", caller, NoId)
    ELSE /\ last' = Response("ride-events", "list", caller, NoId, "ok",
                {RideEventSerializer(e, events[e]) : e \in RideEventManager_get_queryset})
         /\ UNCHANGED <<users, rides, events, seq, cache, now, tokens, inflight>>

\* GET /ride-events/{id}/
RideEventRetrieve(caller, id) ==
    IF ~has_permission(caller) THEN Rejects("ride-events", "retrieve", caller, id)
    ELSE /\ last' = IF id \in RideEventManager_get_queryset
                    THEN Response("ride-events", "retrieve", caller, id, "ok",
                                  RideEventSerializer(id, events[id]))
                    ELSE NotFound("ride-events", "retrieve", caller, id)
         /\ UNCHANGED <<users, rides, events, seq, cache, now, tokens, inflight>>

\* RideEventSerializer validation that looks up no ride
event_errors_unchecked(row) == {}

\* RideEventSerializer validation: id_ride must be the id of a stored ride
event_errors(row) == {f \in {"id_ride"} : row[f] \notin DOMAIN rides}

\* POST /ride-events/ : created_at is auto_now_add, id_ride_event an AutoField
RideEventCreate(caller, ride, description, read_only) ==
    IF ~has_permission(caller) THEN Rejects("ride-events", "create", caller, NoId)
    ELSE LET row == [id_ride |-> ride, description |-> description, created_at |-> now]
             data == [id_ride |-> ride, description |-> description,
                      read_only |-> read_only]
             id == seq.event + 1
         IN IF event_errors(row) # {}
            THEN /\ last' = Request(data, Response("ride-events", "create", caller, NoId,
                                                   "bad_request", event_errors(row)))
                 /\ UNCHANGED <<users, rides, events, seq, cache, now, tokens, inflight>>
            ELSE /\ seq.event < MaxEvents
                 /\ events' = With(events, id, row)
                 /\ seq' = [seq EXCEPT !.event = id]
                 /\ last' = Request(data, Response("ride-events", "create", caller, NoId,
                                                   "created", RideEventSerializer(id, row)))
                 /\ UNCHANGED <<users, rides, cache, now, tokens, inflight>>

\* PUT /ride-events/{id}/ : id_ride and description are writable,
\* id_ride_event and created_at are read_only_fields
RideEventUpdate(caller, id, ride, description, read_only) ==
    IF ~has_permission(caller) THEN Rejects("ride-events", "update", caller, id)
    ELSE IF id \notin RideEventManager_get_queryset
    THEN /\ last' = NotFound("ride-events", "update", caller, id)
         /\ UNCHANGED <<users, rides, events, seq, cache, now, tokens, inflight>>
    ELSE LET row == [events[id] EXCEPT !.id_ride = ride, !.description = description]
             data == [id_ride |-> ride, description |-> description,
                      read_only |-> read_only]
         IN IF event_errors(row) # {}
            THEN /\ last' = Request(data, Response("ride-events", "update", caller, id,
                                                   "bad_request", event_errors(row)))
                 /\ UNCHANGED <<users, rides, events, seq, cache, now, tokens, inflight>>
            ELSE /\ events' = [events EXCEPT ![id] = row]
                 /\ last' = Request(data, Response("ride-events", "update", caller, id, "ok",
                                                   RideEventSerializer(id, row)))
                 /\ UNCHANGED <<users, rides, seq, cache, now, tokens, inflight>>

\* the fields of RideEventSerializer a client can write
EventWritable == {"id_ride", "description"}

\* PATCH /ride-events/{id}/ : only the supplied field is replaced, and only when
\* it is a writable field of RideEventSerializer
RideEventPartialUpdate(caller, id, field, value) ==
    IF ~has_permission(caller) THEN Rejects("ride-events", "partial_update", caller, id)
    ELSE IF id \notin RideEventManager_get_queryset
    THEN /\ last' = NotFound("ride-events", "partial_update", caller, id)
         /\ UNCHANGED <<users, rides, events, seq, cache, now, tokens, inflight>>
    ELSE LET data == [field |-> field, value |-> value]
             row == IF field \in EventWritable
                    THEN [events[id] EXCEPT ![field] = value]
                    ELSE events[id]
         IN IF event_errors(row) # {}
            THEN /\ last' = Request(data, Response("ride-events", "partial_update", caller,
                                                   id, "bad_request", event_errors(row)))
                 /\ UNCHANGED <<users, rides, events, seq, cache, now, tokens, inflight>>
            ELSE /\ events' = [events EXCEPT ![id] = row]
                 /\ last' = Request(data, Response("ride-events", "partial_update", caller,
                                                   id, "ok", RideEventSerializer(id, row)))
                 /\ UNCHANGED <<users, rides, seq, cache, now, tokens, inflight>>

\* DELETE /ride-events/{id}/
RideEventDestroy(caller, id) ==
    IF ~has_permission(caller) THEN Rejects("ride-events", "destroy", caller, id)
    ELSE IF id \notin RideEventManager_get_queryset
    THEN /\ last' = NotFound("ride-events", "destroy", caller, id)
         /\ UNCHANGED <<users, rides, events, seq, cache, now, tokens, inflight>>
    ELSE /\ events' = Without(events, {id})
         /\ last' = Response("ride-events", "destroy", caller, id, "no_content", None)
         /\ UNCHANGED <<users, rides, seq, cache, now, tokens, inflight>>

\* ------------------------------------------------------------- populate_data
\* Command.handle, one event of its loop: RideEvent.objects.create(...) and then
\* RideEvent.objects.filter(id_ride_event=...).update(created_at=...), which
\* backdates the event (here to the edge of the window or one second past it)
PopulateEvent(ride, description, age) ==
    /\ Ready
    /\ seq.event < MaxEvents
    /\ ride \in DOMAIN rides
    /\ LET id == seq.event + 1
       IN /\ events' = With(events, id,
                [id_ride |-> ride, description |-> description, created_at |-> now - age])
          /\ seq' = [seq EXCEPT !.event = id]
    /\ last' = Idle
    /\ UNCHANGED <<users, rides, cache, now, tokens, inflight>>

\* ------------------------------------------------- requests running together
\* The workers of the server. Each handles one request at a time; nothing in the
\* program coordinates them, so the steps of two requests interleave at every
\* access to the database or the cache. inflight[p] is the request worker p is
\* handling: where it is in its handler (pc) and what it holds so far.
Workers == {"w1", "w2"}

Running(p, pc) == p \in DOMAIN inflight /\ inflight[p].pc = pc

\* the worker moves on, holding one more value
Proceed(p, pc, name, value) ==
    inflight' = [inflight EXCEPT ![p] = With([inflight[p] EXCEPT !.pc = pc], name, value)]

\* variant: cache.add, which leaves an entry that is already there alone
cache_add(key, count, timeout) ==
    IF cache_hit(key)
    THEN cache
    ELSE With(cache, key, [count |-> count, expires |-> now + timeout])

\* cache.set(cache_key, count, 300): the entry is replaced, whatever it held
cache_set(key, count, timeout) ==
    With(cache, key, [count |-> count, expires |-> now + timeout])

\* GET /rides/, first step: permissions, the queryset, and get_count as far as
\* count = cache.get(cache_key)
ListBegin(p, caller, query_params) ==
    /\ p \notin DOMAIN inflight
    /\ LET query == filter_queryset(query_param(query_params, "status"),
                                    query_param(query_params, "id_rider__email"),
                                    query_param(query_params, "ordering"),
                                    query_param(query_params, "lat"),
                                    query_param(query_params, "lng"))
           params == [ordering |-> query_param(query_params, "ordering"),
                      lat |-> query_param(query_params, "lat"),
                      lng |-> query_param(query_params, "lng"),
                      limit |-> query_param(query_params, "limit"),
                      offset |-> query_param(query_params, "offset")]
           request == [op |-> "list", pc |-> "count", caller |-> caller,
                       query_params |-> query_params, query |-> query,
                       params |-> params]
       IN inflight' = With(inflight, p,
            IF ~has_permission(caller)
            THEN With([request EXCEPT !.pc = "respond"], "response",
                      Denied("rides", "list", caller, NoId))
            ELSE IF FieldError(query)
            THEN With([request EXCEPT !.pc = "respond"], "response",
                      Request(query_params,
                          Response("rides", "list", caller, NoId, "server_error",
                                   [params |-> params, exception |-> "FieldError"])))
            ELSE IF cache_hit(cache_key(query))
            THEN With([request EXCEPT !.pc = "fetch"], "count",
                      cache[cache_key(query)].count)
            ELSE request)
    /\ UNCHANGED <<users, rides, events, seq, cache, now, tokens, last>>

\* count is None: count = super().get_count(queryset), the SELECT COUNT(*)
ListCount(p) ==
    /\ Running(p, "count")
    /\ LET request == inflight[p]
           count == Cardinality(matching(request.query))
       IN \/ Proceed(p, "set", "count", count)
          \/ /\ DataError(request.query)
             /\ ~(count = 0 \/ get_offset(request.params.offset) > count)
             /\ Proceed(p, "respond", "response",
                    Request(request.query_params,
                        Response("rides", "list", request.caller, NoId, "server_error",
                                 [params |-> request.params, exception |-> "DataError"])))
    /\ UNCHANGED <<users, rides, events, seq, cache, now, tokens, last>>

\* cache.set(cache_key, count, 300)
ListSet(p) ==
    /\ Running(p, "set")
    /\ cache' = cache_set(cache_key(inflight[p].query), inflight[p].count, CACHE_TIMEOUT)
    /\ inflight' = [inflight EXCEPT ![p].pc = "fetch"]
    /\ UNCHANGED <<users, rides, events, seq, now, tokens, last>>

\* the page is read with the count in hand and the response is built
ListFetch(p) ==
    /\ Running(p, "fetch")
    /\ LET request == inflight[p]
           count == request.count
           limit == get_limit(request.params.limit)
           offset == get_offset(request.params.offset)
       IN \/ /\ ~(count = 0 \/ offset > count)
             /\ DataError(request.query)
             /\ Proceed(p, "respond", "response",
                    Request(request.query_params,
                        Response("rides", "list", request.caller, NoId, "server_error",
                                 [params |-> request.params, exception |-> "DataError"])))
          \/ \E rows \in ordered(request.query) :
               LET page == paginate_queryset(rows, count, limit, offset)
               IN Proceed(p, "respond", "response",
                      Request(request.query_params,
                          Response("rides", "list", request.caller, NoId, "ok",
                                   [params |-> request.params, query |-> request.query,
                                    limit |-> limit, offset |-> offset, count |-> count,
                                    results |-> [i \in 1..Len(page) |->
                                                    RideListSerializer(page[i])]])))
    /\ UNCHANGED <<users, rides, events, seq, cache, now, tokens, last>>

\* the response leaves the worker; it is observed before anything else happens
Deliver(p) ==
    /\ Ready
    /\ Running(p, "respond")
    /\ last' = inflight[p].response
    /\ inflight' = Without(inflight, {p})
    /\ UNCHANGED <<users, rides, events, seq, cache, now, tokens>>

\* --------------------------------------------- writes and deletes in steps
\* ForeignKey(User, ...) on Ride.id_rider and Ride.id_driver, ForeignKey(Ride,
\* ...) on RideEvent.id_ride: the constraint the database checks on every
\* INSERT and UPDATE of the referencing row
foreign_key_violation(resource, row) ==
    IF resource = "rides"
    THEN {row.id_rider, row.id_driver} \ DOMAIN users # {}
    ELSE row.id_ride \notin DOMAIN rides

\* ForeignKey(..., db_constraint=False): columns the database does not check
still_referenced_unconstrained(user, gone_rides, gone_events) == FALSE

\* ... and, from the referenced side, on DELETE: rows that still reference a
\* row being deleted and are not deleted in the same transaction
still_referenced(user, gone_rides, gone_events) ==
    \/ \E r \in DOMAIN rides \ gone_rides : user \in {rides[r].id_rider, rides[r].id_driver}
    \/ \E e \in DOMAIN events \ gone_events : events[e].id_ride \in gone_rides

IntegrityError(resource, op, caller, id) ==
    Response(resource, op, caller, id, "server_error", [exception |-> "IntegrityError"])

\* the worker has its response
Answer(p, response) ==
    inflight' = [inflight EXCEPT ![p] = With([inflight[p] EXCEPT !.pc = "respond"],
                                             "response", response)]

\* a write request as far as serializer.is_valid(): permissions, get_object for
\* an update, and the validation of the fields against the rows stored now
WriteBegin(p, resource, op, caller, id, row, table, errors) ==
    /\ p \notin DOMAIN inflight
    /\ caller \in Callers
    /\ LET request == [op |-> op, pc |-> "save", resource |-> resource, caller |-> caller,
                       id |-> id, row |-> row]
           data == [row |-> row, read_only |-> NotSupplied]
       IN inflight' = With(inflight, p,
            IF ~has_permission(caller)
            THEN With([request EXCEPT !.pc = "respond"], "response",
                      Denied(resource, op, caller, id))
            ELSE IF op = "update" /\ id \notin DOMAIN table
            THEN With([request EXCEPT !.pc = "respond"], "response",
                      NotFound(resource, op, caller, id))
            ELSE IF errors # {}
            THEN With([request EXCEPT !.pc = "respond"], "response",
                      Request(data, Response(resource, op, caller, id, "bad_request", errors)))
            ELSE request)
    /\ UNCHANGED <<users, rides, events, seq, cache, now, tokens, last>>

\* POST /rides/ up to serializer.save()
RideCreateBegin(p, caller, status, rider, driver) ==
    LET row == [status |-> status, id_rider |-> rider, id_driver |-> driver,
                pickup_latitude |-> 0, pickup_longitude |-> 0, pickup_time |-> 1]
    IN WriteBegin(p, "rides", "create", caller, NoId, row, rides, ride_errors(row))

\* PUT /rides/{id}/ up to serializer.save()
RideUpdateBegin(p, caller, id, status, rider, driver) ==
    LET row == [status |-> status, id_rider |-> rider, id_driver |-> driver,
                pickup_latitude |-> 0, pickup_longitude |-> 0, pickup_time |-> 1]
    IN WriteBegin(p, "rides", "update", caller, id, row, rides, ride_errors(row))

\* POST /ride-events/ up to serializer.save(); created_at is set when the row
\* is saved
RideEventCreateBegin(p, caller, ride, description) ==
    LET row == [id_ride |-> ride, description |-> description]
    IN WriteBegin(p, "ride-events", "create", caller, NoId, row, events, event_errors(row))

\* serializer.save() for a ride: Ride.objects.create is an INSERT; instance.save()
\* is an UPDATE of the row with that id and, when no row was updated, an INSERT
\* under the same id. The database refuses the row if a foreign key is violated.
RideSave(p) ==
    /\ Running(p, "save")
    /\ inflight[p].resource = "rides"
    /\ LET request == inflight[p]
           row == request.row
           id == IF request.op = "create" THEN seq.ride + 1 ELSE request.id
           data == [row |-> row, read_only |-> NotSupplied]
       IN IF foreign_key_violation("rides", row)
          THEN /\ Answer(p, Request(data, IntegrityError("rides", request.op,
                                                         request.caller, request.id)))
               /\ UNCHANGED <<rides, seq>>
          ELSE /\ request.op = "create" => seq.ride < MaxRides
               /\ rides' = With(rides, id, row)
               /\ seq' = IF request.op = "create" THEN [seq EXCEPT !.ride = id] ELSE seq
               /\ Answer(p, Request(data,
                      Response("rides", request.op, request.caller, request.id,
                               IF request.op = "create" THEN "created" ELSE "ok",
                               RideSerializer(id, row))))
    /\ UNCHANGED <<users, events, cache, now, tokens, last>>

\* serializer.save() for a ride event: an INSERT, refused if the ride is gone
RideEventSave(p) ==
    /\ Running(p, "save")
    /\ inflight[p].resource = "ride-events"
    /\ LET request == inflight[p]
           row == [id_ride |-> request.row.id_ride,
                   description |-> request.row.description, created_at |-> now]
           id == seq.event + 1
           data == [id_ride |-> row.id_ride, description |-> row.description,
                    read_only |-> NotSupplied]
       IN IF foreign_key_violation("ride-events", row)
          THEN /\ Answer(p, Request(data, IntegrityError("ride-events", "create",
                                                         request.caller, NoId)))
               /\ UNCHANGED <<events, seq>>
          ELSE /\ seq.event < MaxEvents
               /\ events' = With(events, id, row)
               /\ seq' = [seq EXCEPT !.event = id]
               /\ Answer(p, Request(data,
                      Response("ride-events", "create", request.caller, NoId, "created",
                               RideEventSerializer(id, row))))
    /\ UNCHANGED <<users, rides, cache, now, tokens, last>>

\* a delete request as far as Collector.collect(): permissions, get_object, and
\* the rows on_delete=CASCADE reaches. The rides of a user are read into the
\* collector here; the events of those rides are deleted later by a query.
DestroyBegin(p, resource, caller, id, table, user, gone_rides) ==
    /\ p \notin DOMAIN inflight
    /\ caller \in Callers
    /\ LET request == [op |-> "destroy", pc |-> "delete", resource |-> resource,
                       caller |-> caller, id |-> id, user |-> user, rides |-> gone_rides]
       IN inflight' = With(inflight, p,
            IF ~has_permission(caller)
            THEN With([request EXCEPT !.pc = "respond"], "response",
                      Denied(resource, "destroy", caller, id))
            ELSE IF id \notin DOMAIN table
            THEN With([request EXCEPT !.pc = "respond"], "response",
                      NotFound(resource, "destroy", caller, id))
            ELSE request)
    /\ UNCHANGED <<users, rides, events, seq, cache, now, tokens, last>>

\* DELETE /users/{id}/
UserDestroyBegin(p, caller, id) ==
    DestroyBegin(p, "users", caller, id, users, id, rides_of_users({id}))

\* DELETE /rides/{id}/
RideDestroyBegin(p, caller, id) ==
    DestroyBegin(p, "rides", caller, id, rides, NoId, {id})

\* Collector.delete, inside transaction.atomic(): first the fast delete,
\* DELETE FROM rides_rideevent WHERE id_ride IN (...), which takes the events
\* stored at that moment
DeleteEvents(p) ==
    /\ Running(p, "delete")
    /\ inflight' = [inflight EXCEPT ![p] = With([inflight[p] EXCEPT !.pc = "commit"],
                                                "events", events_of_rides(inflight[p].rides))]
    /\ UNCHANGED <<users, rides, events, seq, cache, now, tokens, last>>

\* ... then the collected rides and the user are deleted by id and the
\* transaction commits, or the database refuses it and everything is rolled back
DeleteCommit(p) ==
    /\ Running(p, "commit")
    /\ LET request == inflight[p]
       IN IF still_referenced(request.user, request.rides, request.events)
          THEN /\ Answer(p, IntegrityError(request.resource, "destroy",
                                           request.caller, request.id))
               /\ UNCHANGED <<users, rides, events, tokens>>
          ELSE /\ events' = Without(events, request.events)
               /\ rides' = Without(rides, request.rides)
               /\ users' = Without(users, {request.user})
               /\ tokens' = tokens \ {request.user}
               /\ Answer(p, Response(request.resource, "destroy", request.caller,
                                     request.id, "no_content", None))
    /\ UNCHANGED <<seq, cache, now, last>>

\* ------------------------------------------------------------------ clock
\* time passes between requests; entries whose lifetime is over are dropped
\* (cache.get never returns them again)
Tick(t) ==
    /\ Ready
    /\ t > now
    /\ now' = t
    /\ cache' = [k \in {x \in DOMAIN cache : cache[x].expires > t} |-> cache[k]]
    /\ last' = Idle
    /\ UNCHANGED <<users, rides, events, seq, tokens, inflight>>

\* ---------------------------------------------------------- specification
\* the account made by createsuperuser and given the admin role, and a passenger
Admin ==
    [username |-> "admin", password |-> make_password(Password8), role |-> "admin",
     email |-> "a@x.io", date_joined |-> 0]
Bob ==
    [username |-> "bob", password |-> make_password(Password8), role |-> "passenger",
     email |-> "b@x.io", date_joined |-> 0]

\* the database holds one admin account; nothing else exists yet
Init ==
    /\ users = (1 :> Admin)
    /\ rides = << >>
    /\ events = << >>
    /\ seq = [user |-> 1, ride |-> 0, event |-> 0]
    /\ cache = << >>
    /\ now = 0
    /\ tokens = {}
    /\ inflight = << >>
    /\ last = Idle

\* ------------------------------------------------------------------ inputs
\* a request draws its fields and query parameters from the sets of `in`
FieldValues(in, f) ==
    CASE f = "username" -> in.usernames
      [] f = "role" -> in.roles
      [] f = "email" -> in.emails
      [] f = "status" -> in.statuses
      [] f = "id_rider" -> in.riders
      [] f = "id_driver" -> in.drivers
      [] f = "pickup_latitude" -> in.latitudes
      [] f = "pickup_longitude" -> in.longitudes
      [] f = "pickup_time" -> in.pickup_times
      [] f = "id_ride" -> RideIds
      [] f = "description" -> in.descriptions
UserFields == {"username", "role", "email"}
RideFields ==
    {"status", "id_rider", "id_driver", "pickup_latitude", "pickup_longitude", "pickup_time"}
EventFields == {"id_ride", "description"}

UserRequests(in) ==
    \/ \E c \in Callers : Ready /\ UserList(c)
    \/ \E c \in Callers, id \in UserIds : Ready /\ UserRetrieve(c, id)
    \/ \E c \in Callers, n \in in.usernames, p \in in.passwords, r \in in.roles,
          e \in in.emails, ro \in in.read_only : Ready /\ UserCreate(c, n, p, r, e, ro)
    \/ \E c \in Callers, id \in UserIds, n \in in.usernames, r \in in.roles,
          e \in in.emails, ro \in in.read_only : Ready /\ UserUpdate(c, id, n, r, e, ro)
    \/ \E c \in Callers, id \in UserIds, f \in UserFields : \E v \in FieldValues(in, f) :
          Ready /\ UserPartialUpdate(c, id, f, v)
    \/ \E c \in Callers, id \in UserIds : Ready /\ UserDestroy(c, id)

RideRequests(in) ==
    \/ \E c \in Callers, s \in in.status_filters, e \in in.email_filters,
          o \in in.orderings, lat \in in.lats, lng \in in.lngs,
          l \in in.limits, k \in in.offsets : Ready /\ RideList(c, s, e, o, lat, lng, l, k)
    \/ \E c \in Callers, id \in RideIds : Ready /\ RideRetrieve(c, id)
    \/ \E c \in Callers, s \in in.statuses, u \in in.riders, d \in in.drivers,
          x \in in.latitudes, y \in in.longitudes, t \in in.pickup_times,
          ro \in in.read_only : Ready /\ RideCreate(c, s, u, d, x, y, t, ro)
    \/ \E c \in Callers, id \in RideIds, s \in in.statuses, u \in in.riders,
          d \in in.drivers, x \in in.latitudes, y \in in.longitudes,
          t \in in.pickup_times, ro \in in.read_only :
          Ready /\ RideUpdate(c, id, s, u, d, x, y, t, ro)
    \/ \E c \in Callers, id \in RideIds, f \in RideFields : \E v \in FieldValues(in, f) :
          Ready /\ RidePartialUpdate(c, id, f, v)
    \/ \E c \in Callers, id \in RideIds : Ready /\ RideDestroy(c, id)

RideEventRequests(in) ==
    \/ \E c \in Callers : Ready /\ RideEventList(c)
    \/ \E c \in Callers, id \in EventIds : Ready /\ RideEventRetrieve(c, id)
    \/ \E c \in Callers, r \in RideIds, d \in in.descriptions, ro \in in.read_only :
          Ready /\ RideEventCreate(c, r, d, ro)
    \/ \E c \in Callers, id \in EventIds, r \in RideIds, d \in in.descriptions,
          ro \in in.read_only : Ready /\ RideEventUpdate(c, id, r, d, ro)
    \/ \E c \in Callers, id \in EventIds, f \in EventFields : \E v \in FieldValues(in, f) :
          Ready /\ RideEventPartialUpdate(c, id, f, v)
    \/ \E c \in Callers, id \in EventIds : Ready /\ RideEventDestroy(c, id)

\* the whole API, one value for every field the permission gate and the
\* cascades do not read
ApiInputs ==
    [usernames |-> {"bob"}, passwords |-> {Password8}, read_only |-> {NotSupplied},
     roles |-> ROLE_CHOICES, emails |-> {"a@x.io"}, statuses |-> {"pickup"},
     riders |-> {1}, drivers |-> UserIds,
     latitudes |-> {0}, longitudes |-> {0},
     pickup_times |-> {1}, descriptions |-> {<<"P", "i", "c", "k", "u", "p">>},
     status_filters |-> {None}, email_filters |-> {None}, orderings |-> {None},
     lats |-> {None}, lngs |-> {None},
     limits |-> {None}, offsets |-> {None}]

Next ==
    \/ UserRequests(ApiInputs)
    \/ RideRequests(ApiInputs)
    \/ RideEventRequests(ApiInputs)
    \/ Respond

Spec == Init /\ [][Next]_vars

\* the event feed: rides of the one admin, events created now or backdated by
\* populate_data, and a clock that crosses the 24-hour window
EventInputs ==
    [usernames |-> {"bob"}, passwords |-> {Password8}, read_only |-> {NotSupplied},
     roles |-> {"admin"}, emails |-> {"a@x.io"}, statuses |-> {"pickup"},
     riders |-> {1}, drivers |-> {1},
     latitudes |-> {0}, longitudes |-> {0},
     pickup_times |-> {1}, descriptions |-> Descriptions,
     status_filters |-> {None}, email_filters |-> {None}, orderings |-> {None},
     lats |-> {None}, lngs |-> {None},
     limits |-> {None}, offsets |-> {None}]

NextEvents ==
    \/ \E c \in Callers, id \in RideIds : Ready /\ RideRetrieve(c, id)
    \/ \E c \in Callers : Ready /\ RideList(c, None, None, None, None, None, None, None)
    \/ \E c \in Callers : Ready /\ RideCreate(c, "pickup", 1, 1, 0, 0, 1, NotSupplied)
    \/ RideEventRequests(EventInputs)
    \/ \E r \in RideIds, d \in Descriptions : PopulateEvent(r, d, WINDOW + 1)
    \/ \E t \in InstantsOf(MaxDays, 1) : Tick(t)
    \/ Respond

SpecEvents == Init /\ [][NextEvents]_vars

\* creation and deletion: users who ride and drive, their rides, and events of
\* those rides created now or backdated past the window
NextCascade ==
    \/ \E c \in Callers, r \in {"driver", "passenger"} :
          Ready /\ UserCreate(c, "bob", Password8, r, "b@x.io", NotSupplied)
    \/ \E c \in Callers, id \in UserIds : Ready /\ UserDestroy(c, id)
    \/ \E c \in Callers, u \in UserIds, d \in UserIds :
          Ready /\ RideCreate(c, "en-route", u, d, 0, 0, 1, NotSupplied)
    \/ \E c \in Callers, id \in RideIds, f \in {"id_rider", "id_driver"}, v \in UserIds :
          Ready /\ RidePartialUpdate(c, id, f, v)
    \/ \E c \in Callers, id \in RideIds : Ready /\ RideDestroy(c, id)
    \/ \E c \in Callers, r \in RideIds : Ready /\ RideEventCreate(c, r, <<"R", "i", "d", "e">>, NotSupplied)
    \/ \E c \in Callers : Ready /\ RideEventList(c)
    \/ \E r \in RideIds : PopulateEvent(r, <<"P", "i", "c", "k", "u", "p">>, WINDOW + 1)
    \/ Respond

SpecCascade == Init /\ [][NextCascade]_vars

\* the paginated ride list: the rides of an admin and of a passenger come and
\* go while the list is requested under filters, orderings, limits and offsets,
\* and the clock crosses the cache lifetime
ListQueries ==
    {<<None, None, None, None, None>>, <<None, None, "-pickup_time", "1", "0">>,
     <<"pickup", None, "pickup_time", None, None>>, <<None, "b@x.io", None, None, None>>,
     <<None, None, "distance", "0", "0">>, <<None, None, "distance", "0.0", "0">>,
     <<None, None, "-distance", "x", "0">>}
NewRides == {<<"pickup", 1, 0, 1>>, <<"dropoff", 2, 1, 2>>}

InitCache ==
    /\ users = (1 :> Admin @@ 2 :> Bob)
    /\ rides = << >>
    /\ events = << >>
    /\ seq = [user |-> 2, ride |-> 0, event |-> 0]
    /\ cache = << >>
    /\ now = 0
    /\ tokens = {}
    /\ inflight = << >>
    /\ last = Idle

NextCache ==
    \/ \E c \in Callers, q \in ListQueries, l \in {None, "1"}, k \in {None, "1"} :
          Ready /\ RideList(c, q[1], q[2], q[3], q[4], q[5], l, k)
    \/ \E c \in Callers, r \in NewRides :
          Ready /\ RideCreate(c, r[1], r[2], 1, r[3], 0, r[4], NotSupplied)
    \/ \E c \in Callers, id \in RideIds : Ready /\ RideDestroy(c, id)
    \/ \E t \in InstantsOf(0, MaxHalfTtl) : Tick(t)
    \/ Respond

SpecCache == InitCache /\ [][NextCache]_vars

\* the ordered ride list: rides at three latitudes of one meridian and two
\* pickup times are listed under every ordering, with reference points that are
\* valid, missing, empty or not a number
OrderQueries ==
    {<<None, None, None>>, <<"pickup_time", None, None>>, <<"-pickup_time", "3", "0">>,
     <<"distance", "3", "0">>, <<"-distance", "3", "0">>, <<"distance", "8", "0">>,
     <<"distance", None, None>>, <<"-distance", "", "0">>, <<"distance", "x", "0">>,
     <<"distance", "3", None>>}
PickupPoints == {<<3, 1>>, <<8, 2>>, <<0, 2>>}

NextOrder ==
    \/ \E c \in Callers, q \in OrderQueries :
          Ready /\ RideList(c, None, None, q[1], q[2], q[3], None, None)
    \/ \E c \in Callers, p \in PickupPoints :
          Ready /\ RideCreate(c, "pickup", 1, 1, p[1], 0, p[2], NotSupplied)
    \/ \E c \in Callers, id \in RideIds : Ready /\ RideDestroy(c, id)
    \/ Respond

SpecOrder == Init /\ [][NextOrder]_vars

\* accounts: users are created with long, short and missing passwords and with
\* client-supplied ids and timestamps, edited, listed and deleted, and log in
NewPasswords == {Password8, Password7, NoPassword, Padded8, Padded7}

NextAccounts ==
    \/ \E n \in Usernames, p \in NewPasswords : Ready /\ Login(n, p)
    \/ \E c \in Callers : Ready /\ UserList(c)
    \/ \E c \in Callers, id \in UserIds : Ready /\ UserRetrieve(c, id)
    \/ \E c \in Callers, n \in Usernames, p \in NewPasswords, r \in ROLE_CHOICES,
          ro \in {NotSupplied, Supplied} : Ready /\ UserCreate(c, n, p, r, "b@x.io", ro)
    \/ \E c \in Callers, id \in UserIds, n \in Usernames, ro \in {NotSupplied, Supplied} :
          Ready /\ UserUpdate(c, id, n, "driver", "b@x.io", ro)
    \/ \E c \in Callers, id \in UserIds : Ready /\ UserPartialUpdate(c, id, "id_user", 2)
    \/ \E c \in Callers, id \in UserIds : Ready /\ UserPartialUpdate(c, id, "date_joined", 7)
    \/ \E c \in Callers, id \in UserIds : Ready /\ UserPartialUpdate(c, id, "email", "b@x.io")
    \/ \E c \in Callers, id \in UserIds : Ready /\ UserDestroy(c, id)
    \/ \E t \in InstantsOf(0, 1) : Tick(t)
    \/ Respond

SpecAccounts == Init /\ [][NextAccounts]_vars

\* system-assigned fields: users, rides and ride events are created, replaced
\* and patched by requests that also carry ids and timestamps of their own
ReadOnlyInputs == {NotSupplied, Supplied}

NextReadOnly ==
    \/ \E c \in Callers, ro \in ReadOnlyInputs :
          Ready /\ UserCreate(c, "bob", Password8, "driver", "b@x.io", ro)
    \/ \E c \in Callers, id \in UserIds, ro \in ReadOnlyInputs :
          Ready /\ UserUpdate(c, id, "carol", "admin", "c@x.io", ro)
    \/ \E c \in Callers, id \in UserIds : Ready /\ UserPartialUpdate(c, id, "id_user", 9)
    \/ \E c \in Callers, id \in UserIds : Ready /\ UserPartialUpdate(c, id, "date_joined", 7)
    \/ \E c \in Callers, rider \in UserIds, ro \in ReadOnlyInputs :
          Ready /\ RideCreate(c, "pickup", rider, 1, 0, 0, 1, ro)
    \/ \E c \in Callers, id \in RideIds, ro \in ReadOnlyInputs :
          Ready /\ RideUpdate(c, id, "dropoff", 1, 1, 1, 0, 2, ro)
    \/ \E c \in Callers, id \in RideIds : Ready /\ RidePartialUpdate(c, id, "id_ride", 9)
    \/ \E c \in Callers, ride \in RideIds, ro \in ReadOnlyInputs :
          Ready /\ RideEventCreate(c, ride, <<"P", "i", "c", "k", "u", "p">>, ro)
    \/ \E c \in Callers, id \in EventIds, ro \in ReadOnlyInputs :
          Ready /\ RideEventUpdate(c, id, 1, <<"R", "i", "d", "e">>, ro)
    \/ \E c \in Callers, id \in EventIds :
          Ready /\ RideEventPartialUpdate(c, id, "id_ride_event", 9)
    \/ \E c \in Callers, id \in EventIds :
          Ready /\ RideEventPartialUpdate(c, id, "created_at", 7)
    \/ \E t \in InstantsOf(0, 1) : Tick(t)
    \/ Respond

SpecReadOnly == Init /\ [][NextReadOnly]_vars

\* pages: the ride table holds none, a few, more than a default page or more
\* than the largest page of rides, as populate_data leaves it (distinct pickup
\* times, so that the order of the list is unique); rides are deleted and
\* listed with limits and offsets below, at and above the sizes of the table
PopulatedRides(n) ==
    [r \in 1..n |-> [status |-> "pickup", id_rider |-> 1, id_driver |-> 1,
                     pickup_latitude |-> 0, pickup_longitude |-> 0, pickup_time |-> r]]

PageSizes == {0, MaxRides, default_limit + 1, max_limit + 1}
PageLimits == {None, "0", "3", "100", "1000"}
PageOffsets == {None, "2", "21", "200"}

InitPage ==
    /\ users = (1 :> Admin)
    /\ \E n \in PageSizes :
          /\ rides = PopulatedRides(n)
          /\ seq = [user |-> 1, ride |-> n, event |-> 0]
    /\ events = << >>
    /\ cache = << >>
    /\ now = 0
    /\ tokens = {}
    /\ inflight = << >>
    /\ last = Idle

NextPage ==
    \/ \E c \in Callers, l \in PageLimits, k \in PageOffsets :
          Ready /\ RideList(c, None, None, None, None, None, l, k)
    \/ \E c \in Callers, id \in RideIds : Ready /\ RideDestroy(c, id)
    \/ \E t \in InstantsOf(0, MaxHalfTtl) : Tick(t)
    \/ Respond

SpecPage == InitPage /\ [][NextPage]_vars

\* filters: rides of two riders are created and deleted, and listed with the
\* query strings of the RideViewSet docstring and of the filterset
FilterQueries ==
    {[email |-> "b@x.io"], [email |-> "a@x.io"], [id_rider__email |-> "b@x.io"],
     [id_rider__email |-> "a@x.io"], [status |-> "pickup"]}

NextFilter ==
    \/ \E c \in Callers, q \in FilterQueries : Ready /\ RideListView(c, q)
    \/ \E c \in Callers, r \in NewRides :
          Ready /\ RideCreate(c, r[1], r[2], 1, r[3], 0, r[4], NotSupplied)
    \/ \E c \in Callers, id \in RideIds : Ready /\ RideDestroy(c, id)
    \/ \E t \in InstantsOf(0, 1) : Tick(t)
    \/ Respond

SpecFilter == InitCache /\ [][NextFilter]_vars

\* choices: users and rides are created, replaced and patched with roles and
\* statuses inside and outside the enumerations
SuppliedRoles == ROLE_CHOICES \cup {"superuser"}
SuppliedStatuses == STATUS_CHOICES \cup {"cancelled"}

NextChoices ==
    \/ \E c \in Callers, r \in SuppliedRoles :
          Ready /\ UserCreate(c, "bob", Password8, r, "b@x.io", NotSupplied)
    \/ \E c \in Callers, id \in UserIds, r \in SuppliedRoles :
          Ready /\ UserUpdate(c, id, "carol", r, "c@x.io", NotSupplied)
    \/ \E c \in Callers, id \in UserIds, r \in SuppliedRoles :
          Ready /\ UserPartialUpdate(c, id, "role", r)
    \/ \E c \in Callers, s \in SuppliedStatuses :
          Ready /\ RideCreate(c, s, 1, 1, 0, 0, 1, NotSupplied)
    \/ \E c \in Callers, id \in RideIds, s \in SuppliedStatuses :
          Ready /\ RideUpdate(c, id, s, 1, 1, 1, 0, 2, NotSupplied)
    \/ \E c \in Callers, id \in RideIds, s \in SuppliedStatuses :
          Ready /\ RidePartialUpdate(c, id, "status", s)
    \/ Respond

SpecChoices == Init /\ [][NextChoices]_vars

\* old events: a driver is added, rides and events are made, events are
\* backdated past the window or age past it, and users, rides and events are
\* read, changed and deleted by id
NextOld ==
    \/ \E c \in Callers : Ready /\ UserCreate(c, "bob", Password8, "driver", "b@x.io", NotSupplied)
    \/ \E c \in Callers, d \in UserIds :
          Ready /\ RideCreate(c, "pickup", 1, d, 0, 0, 1, NotSupplied)
    \/ \E c \in Callers, r \in RideIds :
          Ready /\ RideEventCreate(c, r, <<"R", "i", "d", "e">>, NotSupplied)
    \/ \E r \in RideIds : PopulateEvent(r, <<"P", "i", "c", "k", "u", "p">>, WINDOW + 1)
    \/ \E c \in Callers, id \in EventIds : Ready /\ RideEventRetrieve(c, id)
    \/ \E c \in Callers, id \in EventIds, r \in RideIds :
          Ready /\ RideEventUpdate(c, id, r, <<"R", "i", "d", "e">>, NotSupplied)
    \/ \E c \in Callers, id \in EventIds :
          Ready /\ RideEventPartialUpdate(c, id, "description", <<"R", "i", "d", "e">>)
    \/ \E c \in Callers, id \in EventIds : Ready /\ RideEventDestroy(c, id)
    \/ \E c \in Callers, id \in RideIds : Ready /\ RideDestroy(c, id)
    \/ \E c \in Callers, id \in UserIds : Ready /\ UserDestroy(c, id)
    \/ \E t \in InstantsOf(MaxDays, 1) : Tick(t)
    \/ Respond

SpecOld == Init /\ [][NextOld]_vars

\* two workers list rides with the same filters while rides come and go and
\* the count cache ages
RaceQueries == {[status |-> "pickup"]}

NextRace ==
    \/ \E p \in Workers, c \in Callers, q \in RaceQueries : Ready /\ ListBegin(p, c, q)
    \/ \E p \in Workers : Ready /\ ListCount(p)
    \/ \E p \in Workers : Ready /\ ListSet(p)
    \/ \E p \in Workers : Ready /\ ListFetch(p)
    \/ \E p \in Workers : Deliver(p)
    \/ \E r \in NewRides : Ready /\ RideCreate(1, r[1], r[2], 1, r[3], 0, r[4], NotSupplied)
    \/ \E id \in RideIds : Ready /\ RideDestroy(1, id)
    \/ \E t \in InstantsOf(0, MaxHalfTtl) : Tick(t)
    \/ Respond

SpecRace == InitCache /\ [][NextRace]_vars

\* two workers create and update rides, add events and delete users and rides,
\* every request of one interleaved with the requests of the other
NextInterleaved ==
    \/ \E p \in Workers : Ready /\ RideCreateBegin(p, 1, "pickup", 2, 1)
    \/ \E p \in Workers, id \in RideIds, u \in UserIds :
          Ready /\ RideUpdateBegin(p, 1, id, "dropoff", 1, u)
    \/ \E p \in Workers, r \in RideIds :
          Ready /\ RideEventCreateBegin(p, 1, r, <<"R", "i", "d", "e">>)
    \/ \E p \in Workers : Ready /\ RideSave(p)
    \/ \E p \in Workers : Ready /\ RideEventSave(p)
    \/ \E p \in Workers : Ready /\ UserDestroyBegin(p, 1, 2)
    \/ \E p \in Workers, id \in RideIds : Ready /\ RideDestroyBegin(p, 1, id)
    \/ \E p \in Workers : Ready /\ DeleteEvents(p)
    \/ \E p \in Workers : Ready /\ DeleteCommit(p)
    \/ \E p \in Workers : Deliver(p)
    \/ Respond

SpecInterleaved == InitCache /\ [][NextInterleaved]_vars

\* ------------------------------------------------------------------ claims
\* a step that handles a request: a response becomes pending
Handled == last'.status # None
\* the caller of that request, as stored when the request arrived
CallerIsAdmin ==
    /\ last'.caller # AnonymousUser
    /\ users[last'.caller].role = "admin"

C2_RejectedRideRequestTouchesNothing ==
    [][(Handled /\ last'.resource = "rides" /\ last'.caller # AnonymousUser
            /\ users[last'.caller].role # "admin") =>
        /\ last'.status = "denied"
        /\ UNCHANGED <<users, rides, events, seq, cache>>]_vars

\* a driver's GET /rides/ has been rejected while rides are stored
C2_Witness ==
    /\ last.status = "denied"
    /\ last.resource = "rides" /\ last.op = "list"
    /\ last.caller # AnonymousUser
    /\ users[last.caller].role = "driver"
    /\ DOMAIN rides # {}

\* an event is recent when it was created at most 24 hours before now
Recent(e) == now - events[e].created_at <= 24 * 3600
Shown(e) ==
    [id_ride_event |-> e, id_ride |-> events[e].id_ride,
     description |-> events[e].description, created_at |-> events[e].created_at]

\* C3: the default RideEvent path (RideEvent.objects, GET /ride-events/ and
\* GET /ride-events/{id}/) returns exactly the stored events created at most 24
\* hours before the query and never an older one, also under a description filter
C3_DefaultPathWindowed ==
    /\ RideEventManager_get_queryset = {e \in DOMAIN events : Recent(e)}
    /\ \A kw \in Keywords :
          /\ \A e \in filter_description(kw) : Recent(e)
          /\ \A e \in DOMAIN events :
                (Recent(e) /\ IContains(events[e].description, kw))
                    => e \in filter_description(kw)
    /\ (last.resource = "ride-events" /\ last.op = "list" /\ last.status = "ok") =>
          last.body = {Shown(e) : e \in {x \in DOMAIN events : Recent(x)}}
    /\ (last.resource = "ride-events" /\ last.op = "retrieve" /\ last.status = "ok") =>
          /\ last.id \in DOMAIN events /\ Recent(last.id)
          /\ last.body = Shown(last.id)
    /\ (last.resource = "ride-events" /\ last.op = "retrieve"
            /\ last.status = "not_found") =>
          ~(last.id \in DOMAIN events /\ Recent(last.id))

\* GET /ride-events/ has answered with one event while an older event of the same
\* description is stored, and another stored event is exactly 24 hours old
C3_Witness ==
    /\ last.resource = "ride-events" /\ last.op = "list" /\ last.status = "ok"
    /\ Cardinality(last.body) = 1
    /\ \E e \in DOMAIN events : ~Recent(e) /\ IContains(events[e].description, <<"p", "i", "c", "k">>)
    /\ \E e \in DOMAIN events : now - events[e].created_at = 24 * 3600

\* C4: all_unfiltered() returns every stored event whatever its age, and
\* for_ride(r) every stored event of ride r whatever its age and no event of
\* another ride
C4_EscapeHatches ==
    /\ \A e \in DOMAIN events :
          /\ e \in all_unfiltered
          /\ e \in for_ride(events[e].id_ride)
          /\ \A r \in RideIds : r # events[e].id_ride => e \notin for_ride(r)
    /\ all_unfiltered \subseteq DOMAIN events
    /\ \A r \in RideIds : for_ride(r) \subseteq DOMAIN events

\* an event older than 24 hours of ride 1 and a recent event of ride 2 are stored
C4_Witness ==
    /\ \E e \in for_ride(1) : ~Recent(e)
    /\ \E e \in for_ride(2) : Recent(e)
    /\ Cardinality(all_unfiltered) = 2
    /\ Cardinality(RideEventManager_get_queryset) = 1

\* the nested events a ride response must carry: the recent events of the ride
NestedEvents(r) ==
    {Shown(e) : e \in {x \in DOMAIN events : events[x].id_ride = r /\ Recent(x)}}

\* C5: the events nested in the ride list and ride detail responses go through
\* the 24-hour window: an older event of the ride is absent from them, while
\* for_ride(ride) still returns it
C5_NestedEventsWindowed ==
    /\ (last.resource = "rides" /\ last.op = "retrieve" /\ last.status = "ok") =>
          /\ last.body.events = NestedEvents(last.id)
          /\ \A e \in DOMAIN events :
                (events[e].id_ride = last.id /\ ~Recent(e)) =>
                    /\ Shown(e) \notin last.body.events
                    /\ e \in for_ride(last.id)
    /\ (last.resource = "rides" /\ last.op = "list" /\ last.status = "ok") =>
          \A i \in 1..Len(last.body.results) :
              LET row == last.body.results[i]
              IN /\ row.events = NestedEvents(row.id_ride)
                 /\ \A e \in DOMAIN events :
                       (events[e].id_ride = row.id_ride /\ ~Recent(e)) =>
                           /\ Shown(e) \notin row.events
                           /\ e \in for_ride(row.id_ride)

\* GET /rides/ has answered with a ride that shows one event while for_ride
\* returns two for it
C5_Witness ==
    /\ last.resource = "rides" /\ last.op = "list" /\ last.status = "ok"
    /\ \E i \in 1..Len(last.body.results) :
          LET row == last.body.results[i]
          IN /\ Cardinality(row.events) = 1
             /\ Cardinality(for_ride(row.id_ride)) = 2

\* every reference points at a stored row
NoDanglingReference ==
    /\ \A r \in DOMAIN rides :
          rides[r].id_rider \in DOMAIN users /\ rides[r].id_driver \in DOMAIN users
    /\ \A e \in DOMAIN events : events[e].id_ride \in DOMAIN rides

Deleted(resource) ==
    Handled /\ last'.resource = resource /\ last'.op = "destroy"
        /\ last'.status = "no_content"

\* C6: deleting a user removes every ride that names the user as rider or as
\* driver and no other ride; deleting a ride, directly or through that cascade,
\* removes all its events whatever their age and no other event; after every
\* step no ride references a missing user and no event a missing ride
C6_Cascade ==
    [][/\ NoDanglingReference'
       /\ Deleted("users") =>
             /\ DOMAIN users' = DOMAIN users \ {last'.id}
             /\ DOMAIN rides' =
                   {r \in DOMAIN rides :
                       rides[r].id_rider # last'.id /\ rides[r].id_driver # last'.id}
             /\ DOMAIN events' = {e \in DOMAIN events : events[e].id_ride \in DOMAIN rides'}
       /\ Deleted("rides") =>
             /\ DOMAIN rides' = DOMAIN rides \ {last'.id}
             /\ DOMAIN events' = {e \in DOMAIN events : events[e].id_ride # last'.id}
             /\ users' = users]_vars

\* DELETE /users/2/ has emptied the rides and events tables: two rides and two
\* events had been created, and user 1 is still stored
C6_Witness ==
    /\ last.resource = "users" /\ last.op = "destroy" /\ last.status = "no_content"
    /\ last.id = 2
    /\ seq.ride = 2 /\ seq.event = 2
    /\ DOMAIN rides = {} /\ DOMAIN events = {}
    /\ 1 \in DOMAIN users

\* GET /rides/ has been answered with a page
ListAnswered ==
    last.resource = "rides" /\ last.op = "list" /\ last.status = "ok"
\* the rides that match a resolved query now
RowsOf(q) ==
    {r \in DOMAIN rides :
        /\ q.status = None \/ rides[r].status = q.status
        /\ q.id_rider__email = None \/ users[rides[r].id_rider].email = q.id_rider__email}
\* the cache holds a count for key k that has not expired
Live(k) == k \in DOMAIN cache /\ now < cache[k].expires

\* C7: identical ride-list requests issued within the 300-second lifetime of the
\* cached count all report the same total: a request that finds the entry reports
\* the stored count, the request that wrote the entry reported that count, and
\* no step (ride inserts and deletes included) changes an entry before it expires
C7_CountStableWithinLifetime ==
    [][/\ (Handled /\ ListAnswered') =>
             LET k == cache_key(last'.body.query)
             IN IF Live(k)
                THEN last'.body.count = cache[k].count
                ELSE cache'[k] = [count |-> last'.body.count,
                                  expires |-> now + 300]
       /\ \A k \in DOMAIN cache :
             now' < cache[k].expires => (k \in DOMAIN cache' /\ cache'[k] = cache[k])]_vars

\* a list response reports a total of 2 although no ride matches any more, and
\* another reports 0 although a ride matches
C7_Witness ==
    /\ ListAnswered
    /\ last.body.count = 2
    /\ RowsOf(last.body.query) = {}
    /\ now > 0

\* C8: a cached count lives at most 300 seconds, and a ride-list request that
\* finds no live entry for its query reports (and stores) the number of rows
\* that match at that moment
C8_FreshAfterExpiry ==
    [][/\ \A k \in DOMAIN cache' : cache'[k].expires <= now' + 300
       /\ (Handled /\ ListAnswered' /\ ~Live(cache_key(last'.body.query))) =>
             /\ last'.body.count = Cardinality(RowsOf(last'.body.query))
             /\ cache'[cache_key(last'.body.query)].count =
                   Cardinality(RowsOf(last'.body.query))]_vars

\* 300 seconds after the start a list request has recomputed a total of 1 and
\* stored it until second 600
C8_Witness ==
    /\ ListAnswered
    /\ now = 300
    /\ cache[cache_key(last.body.query)].expires = 600
    /\ last.body.count = 1
    /\ Cardinality(RowsOf(last.body.query)) = 1

\* the ids of the rows of a page
PageIds == [i \in 1..Len(last.body.results) |-> last.body.results[i].id_ride]

\* C9: whatever the cache holds, the page of a ride-list response is the rows at
\* positions offset .. offset+limit-1 of the current filtered and ordered rides
C9_PageAlwaysFresh ==
    ListAnswered =>
        \E rows \in ordered(last.body.query) :
            PageIds = SubSeq(rows, last.body.offset + 1,
                             Min(last.body.offset + last.body.limit, Len(rows)))

\* the effective query of a list request, read off its parameters
\* status filter, rider-email filter, sort column and direction, and the
\* reference point in degrees when the sort is by distance from a parsable point
Degrees(text) ==
    CASE text \in {"0", "0.0"} -> 0 [] text \in {"1", "1.0"} -> 1
      [] text = "3" -> 3 [] text = "8" -> 8
Effective(q) ==
    LET by_distance == q[3] \in {"distance", "-distance"}
        parsable == {"0", "0.0", "1", "1.0"}
    IN <<q[1], q[2],
         IF by_distance THEN "distance" ELSE "pickup_time",
         IF q[3] \in {"pickup_time", "distance"} THEN "ascending" ELSE "descending",
         IF by_distance /\ q[4] \in parsable /\ q[5] \in parsable
         THEN <<Degrees(q[4]), Degrees(q[5])>> ELSE << >> >>

\* C10: the count cache key depends on the resolved query only: requests with
\* the same effective filters, ordering and distance reference point use one
\* entry (and would be given the same count, whenever they arrive) whatever
\* their limit and offset, and requests whose status or rider-email filters
\* differ use different entries
C10_KeyIsResolvedQuery ==
    /\ Ready => \A p1 \in ListQueries, p2 \in ListQueries :
          LET q1 == filter_queryset(p1[1], p1[2], p1[3], p1[4], p1[5])
              q2 == filter_queryset(p2[1], p2[2], p2[3], p2[4], p2[5])
          IN /\ Effective(p1) = Effective(p2) =>
                    /\ cache_key(q1) = cache_key(q2)
                    /\ get_count(q1) = get_count(q2)
             /\ (p1[1] # p2[1] \/ p1[2] # p2[2]) => cache_key(q1) # cache_key(q2)
    /\ ListAnswered =>
          /\ cache_key(last.body.query) \in DOMAIN cache
          /\ cache[cache_key(last.body.query)].count = last.body.count
          /\ \A p \in ListQueries :
                (p[1] # last.body.query.status
                    \/ p[2] # last.body.query.id_rider__email) =>
                    cache_key(filter_queryset(p[1], p[2], p[3], p[4], p[5]))
                        # cache_key(last.body.query)

\* with limit=1 and offset=1 the unfiltered list reports the total 2 cached for
\* its query while the entry of the status=pickup query holds another count
C10_Witness ==
    /\ ListAnswered
    /\ last.body.limit = 1 /\ last.body.offset = 1
    /\ last.body.query.status = None /\ last.body.query.id_rider__email = None
    /\ last.body.count = 2
    /\ LET k == cache_key(filter_queryset("pickup", None, "pickup_time", None, None))
       IN k \in DOMAIN cache /\ cache[k].count # 2

\* GET /rides/ has been handled for an admitted caller, with or without success
ListHandled ==
    last.resource = "rides" /\ last.op = "list" /\ last.status \in {"ok", "server_error"}
\* the request asked for an ordering by distance
ByDistance == last.body.params.ordering \in {"distance", "-distance"}
\* its reference point is complete and numeric
Parsable == {"0", "0.0", "1", "1.0", "3", "8"}
ValidPoint == last.body.params.lat \in Parsable /\ last.body.params.lng \in Parsable
\* the pickup times and latitudes of the rows of the page, in page order
PageTimes == [i \in 1..Len(last.body.results) |-> last.body.results[i].pickup_time]
PageLatitudes ==
    [i \in 1..Len(last.body.results) |-> rides[last.body.results[i].id_ride].pickup_latitude]
NonIncreasing(f) == \A i, j \in DOMAIN f : i < j => f[i] >= f[j]
NonDecreasing(f) == \A i, j \in DOMAIN f : i < j => f[i] <= f[j]

\* C11: a ride list ordered by distance whose lat or lng is missing, empty or
\* not a number succeeds, without the distance annotation, and returns the
\* rides in the default ordering (descending pickup time)
C11_DistanceWithoutPointFallsBack ==
    (ListHandled /\ ByDistance /\ ~ValidPoint) =>
        /\ last.status = "ok"
        /\ last.body.query.distance = << >>
        /\ NonIncreasing(PageTimes)

\* degrees of arc between the reference latitude and the pickup latitude of the
\* i-th row of the page (all points lie on one meridian)
Arc(i) ==
    LET ref == Degrees(last.body.params.lat)
        lat == PageLatitudes[i]
    IN IF ref >= lat THEN ref - lat ELSE lat - ref

\* C12: a ride list ordered by distance from a valid reference point succeeds
\* and returns the rides by non-decreasing great-circle distance from that
\* point, so a ride picked up at the reference point itself comes first
C12_NearestFirst ==
    (ListHandled /\ last.body.params.ordering = "distance" /\ ValidPoint) =>
        /\ last.status = "ok"
        /\ NonDecreasing([i \in 1..Len(last.body.results) |-> Arc(i)])
        /\ \A i \in 1..Len(last.body.results) : Arc(i) = 0 => Arc(1) = 0

\* C13: in an answered ride list the ordering parameter picks key and
\* direction: pickup_time is ascending pickup time, -pickup_time and no
\* ordering parameter are descending pickup time, distance is ascending and
\* -distance descending distance from the reference point
C13_OrderingDirection ==
    ListAnswered =>
        LET o == last.body.params.ordering
            arcs == [i \in 1..Len(last.body.results) |-> Arc(i)]
        IN /\ o = "pickup_time" => NonDecreasing(PageTimes)
           /\ o \in {"-pickup_time", None} => NonIncreasing(PageTimes)
           /\ o = "distance" => NonDecreasing(arcs)
           /\ o = "-distance" => NonIncreasing(arcs)

\* with ordering=-distance and reference latitude 3, the ride picked up at
\* latitude 8 precedes the ride picked up at latitude 0
C13_Witness ==
    /\ ListAnswered
    /\ last.body.params.ordering = "-distance"
    /\ PageLatitudes = <<8, 0>>
    /\ Arc(1) > Arc(2)

\* POST /auth/login/ has been handled
LoginHandled == last.resource = "auth" /\ last.op = "login"
\* the users whose username and password the request carried
Holders ==
    {u \in DOMAIN users :
        /\ users[u].username = last.data.username
        /\ users[u].password = <<"pbkdf2_sha256$">> \o last.data.password}

\* C14: a login with the username and password of a stored user, whatever the
\* role, succeeds and returns that user's id_user, username and role with the
\* token stored for the user
C14_LoginReturnsToken ==
    LoginHandled =>
        \A u \in Holders :
            /\ last.status = "ok"
            /\ u \in tokens
            /\ last.body.id_user = u
            /\ last.body.username = users[u].username
            /\ last.body.role = users[u].role

\* POST /users/ has been handled for an admitted caller in this step
UserCreateHandled ==
    /\ Handled
    /\ last'.resource = "users" /\ last'.op = "create"
    /\ last'.status \in {"bad_request", "created"}

\* C15: creating a user with a missing password or one shorter than 8
\* characters fails with an error on 'password' and creates no user; with 8 or
\* more characters the password is accepted, and the stored credential of the
\* created user differs from the plaintext and verifies against it
C15_PasswordRule ==
    [][UserCreateHandled =>
          LET p == last'.data.password
          IN /\ Len(p) < 8 =>
                   /\ last'.status = "bad_request"
                   /\ "password" \in last'.body
                   /\ users' = users
             /\ Len(p) >= 8 =>
                   /\ "password" \notin IF last'.status = "bad_request"
                                        THEN last'.body ELSE {}
                   /\ last'.status = "created" <=>
                         \A u \in DOMAIN users : users[u].username # last'.data.username
             /\ last'.status = "created" =>
                   /\ DOMAIN users' = DOMAIN users \cup {seq'.user}
                   /\ seq'.user \notin DOMAIN users
                   /\ users'[seq'.user].password # p
                   /\ check_password(p, users'[seq'.user].password)
                   /\ \A q \in NewPasswords \ {p} :
                          ~check_password(q, users'[seq'.user].password)]_vars

\* the user objects of the response: the users of a user list, the user of a
\* user create, retrieve or update, the rider and the driver nested in a ride
UserObjects ==
    IF last.status \notin {"ok", "created"} THEN {}
    ELSE IF last.resource = "users"
         THEN IF last.op = "list" THEN last.body ELSE {last.body}
    ELSE IF last.resource = "rides" /\ last.op # "list"
         THEN {last.body.rider, last.body.driver}
    ELSE {}

\* C16: no response carries a user's password or its hash: the user objects
\* of user create, list, retrieve and update responses and the rider and
\* driver nested in ride responses have no password field, and the other
\* responses have no user object
C16_PasswordNeverReturned ==
    /\ \A o \in UserObjects :
          DOMAIN o \subseteq {"id_user", "username", "email", "role", "date_joined"}
    /\ last.resource = "rides" /\ last.op = "list" /\ last.status = "ok" =>
          \A i \in DOMAIN last.body.results :
              DOMAIN last.body.results[i] =
                  {"id_ride", "status", "id_rider", "id_driver", "pickup_time", "events"}
    /\ last.resource = "ride-events" /\ last.status \in {"ok", "created"} =>
          \A o \in (IF last.op = "list" THEN last.body ELSE {last.body}) :
              DOMAIN o = {"id_ride_event", "id_ride", "description", "created_at"}

\* a user has been created from a request that carried a password, and the
\* response describes the stored user
C16_Witness ==
    /\ last.resource = "users" /\ last.op = "create" /\ last.status = "created"
    /\ last.data.password = Password8
    /\ \E u \in DOMAIN users :
          /\ users[u].username = last.body.username
          /\ users[u].password = make_password(Password8)

\* the fields the system assigns, by resource
SystemFields(resource) ==
    IF resource = "users" THEN {"id_user", "date_joined"}
    ELSE IF resource = "rides" THEN {"id_ride"}
    ELSE {"id_ride_event", "created_at"}

\* a create, a replacement or a patch that supplies a system-assigned field has
\* been handled for an admitted caller, on an existing row if it names one
SystemFieldSupplied ==
    /\ Handled
    /\ last'.status \in {"ok", "created", "bad_request"}
    /\ \/ last'.op \in {"create", "update"} /\ last'.data.read_only.given
       \/ last'.op = "partial_update" /\ last'.data.field \in SystemFields(last'.resource)

\* the table the request addresses, before and after, and the next id of it
TableOf(resource, u, r, e) ==
    IF resource = "users" THEN u ELSE IF resource = "rides" THEN r ELSE e

\* C17: a create, replacement or patch that supplies id_user, date_joined,
\* id_ride, id_ride_event or created_at gets no validation error for that
\* field; the row keeps the id and the timestamp the system gave it (a created
\* row gets the next id and the current time), no other row changes, the other
\* fields of the request are stored, and the response reports the stored id
\* and timestamp
C17_SystemFieldsIgnored ==
    [][SystemFieldSupplied =>
          LET old == TableOf(last'.resource, users, rides, events)
              new == TableOf(last'.resource, users', rides', events')
              next == TableOf(last'.resource, seq.user, seq.ride, seq.event) + 1
              id == IF last'.op = "create" THEN next ELSE last'.id
              key == TableOf(last'.resource, "id_user", "id_ride", "id_ride_event")
              stamp == IF last'.resource = "users" THEN "date_joined" ELSE "created_at"
              supplied == IF last'.resource = "rides" THEN last'.data.row
                          ELSE [f \in DOMAIN last'.data \ {"read_only", "password"} |->
                                   last'.data[f]]
          IN /\ last'.status = "bad_request" =>
                   /\ last'.body \cap SystemFields(last'.resource) = {}
                   /\ new = old
             /\ last'.status \in {"ok", "created"} =>
                   /\ DOMAIN new = DOMAIN old \cup {id}
                   /\ \A other \in DOMAIN old \ {id} : new[other] = old[other]
                   /\ last'.op = "create" <=> id \notin DOMAIN old
                   /\ last'.resource # "rides" =>
                         new[id][stamp] = IF last'.op = "create" THEN now
                                          ELSE old[id][stamp]
                   /\ last'.op = "partial_update" => new = old
                   /\ last'.op # "partial_update" =>
                         \A f \in DOMAIN supplied : new[id][f] = supplied[f]
                   /\ key \in DOMAIN last'.body => last'.body[key] = id
                   /\ stamp \in DOMAIN last'.body =>
                         last'.body[stamp] = new[id][stamp]]_vars

\* a ride event made at a later time has been replaced by a request that
\* carried an id and a creation time of its own
C17_Witness ==
    /\ last.resource = "ride-events" /\ last.op = "update" /\ last.status = "ok"
    /\ last.data.read_only = Supplied
    /\ events[last.id].created_at > Supplied.stamp
    /\ events[last.id].description = <<"R", "i", "d", "e">>

\* a ride or ride-event create, replacement or patch has been handled for an
\* admitted caller, on an existing row if it names one
WriteHandled(resource) ==
    /\ Handled
    /\ last'.resource = resource
    /\ last'.op \in {"create", "update", "partial_update"}
    /\ last'.status \in {"ok", "created", "bad_request"}

\* the references the request supplies: field -> id
References ==
    LET fields == IF last'.resource = "rides" THEN {"id_rider", "id_driver"}
                  ELSE {"id_ride"}
        data == last'.data
    IN IF last'.op = "partial_update"
       THEN [f \in fields \cap {data.field} |-> data.value]
       ELSE IF last'.resource = "rides" THEN [f \in fields |-> data.row[f]]
       ELSE [f \in fields |-> data[f]]

\* the supplied references that name no stored row
Dangling ==
    {f \in DOMAIN References :
        References[f] \notin (IF f = "id_ride" THEN DOMAIN rides ELSE DOMAIN users)}

\* C18: a ride create or update whose id_rider or id_driver names no stored
\* user, and a ride-event create or update whose id_ride names no stored ride,
\* is answered 400 with an error on each such field, and no row is created or
\* changed
C18_DanglingReferenceRejected ==
    [][WriteHandled("rides") \/ WriteHandled("ride-events") =>
          /\ Dangling \subseteq (IF last'.status = "bad_request" THEN last'.body ELSE {})
          /\ Dangling # {} =>
                /\ last'.status = "bad_request"
                /\ UNCHANGED <<users, rides, events, seq>>]_vars

\* a ride whose driver is not a stored user has been refused while its rider
\* is one
C18_Witness ==
    /\ last.resource = "rides" /\ last.op = "create" /\ last.status = "bad_request"
    /\ last.body = {"id_driver"}
    /\ last.data.row.id_driver \notin DOMAIN users
    /\ last.data.row.id_rider \in DOMAIN users
    /\ rides = << >>

\* a ride list has been answered in this step from an empty count cache
FirstPageHandled ==
    /\ Handled
    /\ last'.resource = "rides" /\ last'.op = "list" /\ last'.status = "ok"
    /\ cache = << >>

Max(a, b) == IF a > b THEN a ELSE b

\* the offset the request asks for: 0 when it gives none
AskedOffset == IF last'.body.params.offset = None THEN 0
               ELSE int(last'.body.params.offset)

\* C19 as stated: the page never has more than 100 rides, has at most 20 when
\* no limit is given, and with limit=L and offset=K over N rides has
\* min(L, max(N-K, 0)) rides and reports N
C19_PageSize ==
    [][FirstPageHandled =>
          LET N == Cardinality(DOMAIN rides)
              size == Len(last'.body.results)
              L == last'.body.params.limit
          IN /\ size <= max_limit
             /\ L = None => size <= default_limit
             /\ L # None => size = Min(int(L), Max(N - AskedOffset, 0))
             /\ last'.body.count = N]_vars

\* C19, amended: the page never has more than 100 rides, has
\* min(20, max(N-K, 0)) rides when no limit or limit=0 is given, and with
\* limit=L >= 1 and offset=K over N rides has min(L, 100, max(N-K, 0)) rides,
\* the rides at positions K+1.. of the list in descending pickup time, and
\* reports N
C19_PageSizeCapped ==
    [][FirstPageHandled =>
          LET N == Cardinality(DOMAIN rides)
              size == Len(last'.body.results)
              L == last'.body.params.limit
              asked == IF L = None THEN 0 ELSE int(L)
              effective == IF asked = 0 THEN default_limit ELSE Min(asked, max_limit)
          IN /\ size <= max_limit
             /\ size = Min(effective, Max(N - AskedOffset, 0))
             /\ \A i \in 1..size :
                   /\ last'.body.results[i].id_ride \in DOMAIN rides
                   /\ Cardinality({r \in DOMAIN rides :
                         rides[r].pickup_time >
                            rides[last'.body.results[i].id_ride].pickup_time})
                      = AskedOffset + i - 1
             /\ last'.body.count = N]_vars

\* a client asked for 1000 rides of a table of more than 100 and got 100
C19_Witness ==
    /\ last.resource = "rides" /\ last.op = "list" /\ last.status = "ok"
    /\ last.body.params.limit = "1000"
    /\ Cardinality(DOMAIN rides) > max_limit
    /\ Len(last.body.results) = max_limit
    /\ last.body.count = Cardinality(DOMAIN rides)

\* a request without credentials has been handled in this step
AnonymousHandled == Handled /\ last'.caller = AnonymousUser

\* the table of the resource the request addresses
Addressed(u, r, e) == TableOf(last'.resource, u, r, e)

RideCreateBy(role) ==
    /\ Handled
    /\ last'.resource = "rides" /\ last'.op = "create"
    /\ last'.caller # AnonymousUser
    /\ users[last'.caller].role = role

EventUpdateHandled ==
    /\ Handled
    /\ last'.resource = "ride-events"
    /\ last'.op \in {"update", "partial_update"}
    /\ last'.id \in DOMAIN events

\* C22: after any PUT or PATCH on /ride-events/{id} the event is stored under
\* the same id with the same parent ride and the same created_at, no other
\* event has changed, and only its description may differ
C22_OnlyDescriptionChanges ==
    [][EventUpdateHandled =>
          /\ DOMAIN events' = DOMAIN events
          /\ \A e \in DOMAIN events :
                /\ events'[e].id_ride = events[e].id_ride
                /\ events'[e].created_at = events[e].created_at
                /\ e # last'.id => events'[e] = events[e]]_vars

\* a PUT or PATCH on /rides/{id} has changed the status of the ride in this step
StatusChanged ==
    /\ Handled
    /\ last'.resource = "rides"
    /\ last'.op \in {"update", "partial_update"}
    /\ last'.id \in DOMAIN rides /\ last'.id \in DOMAIN rides'
    /\ rides'[last'.id].status # rides[last'.id].status

\* C23: whenever an update changes the status of a ride, an event of that ride
\* that was not stored before, made at the time of the update, is stored
\* afterwards
C23_TransitionRecorded ==
    [][StatusChanged =>
          \E e \in DOMAIN events' \ DOMAIN events :
              /\ events'[e].id_ride = last'.id
              /\ events'[e].created_at = now]_vars

\* a ride list has been answered to a request that carried ?email=
EmailListAnswered ==
    /\ last.resource = "rides" /\ last.op = "list" /\ last.status = "ok"
    /\ "email" \in DOMAIN last.data

\* C24: GET /rides/?email=<address> returns only rides whose rider has that
\* email
C24_EmailParameterFilters ==
    EmailListAnswered =>
        \A i \in DOMAIN last.body.results :
            users[last.body.results[i].id_rider].email = last.data.email

\* an admin's retrieve, PUT, PATCH or DELETE has been handled in this step for
\* an id under which the addressed table stores no row
MissingHandled ==
    /\ Handled
    /\ CallerIsAdmin
    /\ last'.op \in {"retrieve", "update", "partial_update", "destroy"}
    /\ last'.id \notin DOMAIN TableOf(last'.resource, users, rides, events)

\* C25: a retrieve, update, partial update or delete addressed to an id for
\* which no user, ride or ride event is stored is answered not-found, to the
\* caller that sent it, and leaves the tables, the id sequences, the tokens
\* and the count cache as they were
C25_MissingIdNotFound ==
    [][MissingHandled =>
          /\ last'.status = "not_found"
          /\ last'.body = "Not found."
          /\ UNCHANGED <<users, rides, events, seq, cache, tokens, now>>]_vars

\* an admin's DELETE /rides/{id} for an id that is not stored has been answered
\* not-found while another ride is stored
C25_Witness ==
    /\ last.resource = "rides" /\ last.op = "destroy" /\ last.status = "not_found"
    /\ last.id \notin DOMAIN rides
    /\ rides # << >>
    /\ last.caller # AnonymousUser

\* the value an admin's create, PUT or PATCH on an existing row supplies for
\* the enumerated field of the resource (role of a user, status of a ride),
\* as a set: empty when the request supplies none
SuppliedChoice ==
    IF ~(Handled /\ CallerIsAdmin /\ last'.status \in {"ok", "created", "bad_request"}
                 /\ last'.op \in {"create", "update", "partial_update"})
    THEN {}
    ELSE IF last'.op = "partial_update"
         THEN IF last'.data.field \in {"role", "status"} THEN {last'.data.value} ELSE {}
    ELSE IF last'.resource = "users" THEN {last'.data.role}
    ELSE IF last'.resource = "rides" THEN {last'.data.row.status}
    ELSE {}

\* C27: every stored user has a role among driver, passenger, admin and every
\* stored ride a status among en-route, pickup, dropoff, before and after
\* every step; a create, PUT or PATCH that supplies another value is answered
\* 400 with an error on that field and changes nothing
C27_ChoicesEnforced ==
    [][/\ \A u \in DOMAIN users : users[u].role \in ROLE_CHOICES
       /\ \A u \in DOMAIN users' : users'[u].role \in ROLE_CHOICES
       /\ \A r \in DOMAIN rides : rides[r].status \in STATUS_CHOICES
       /\ \A r \in DOMAIN rides' : rides'[r].status \in STATUS_CHOICES
       /\ \A v \in SuppliedChoice \ (ROLE_CHOICES \cup STATUS_CHOICES) :
             /\ last'.status = "bad_request"
             /\ (IF last'.resource = "users" THEN "role" ELSE "status") \in last'.body
             /\ UNCHANGED <<users, rides, events, seq, cache, tokens>>]_vars

\* a PATCH that would give a stored ride the status 'cancelled' has been
\* refused, and the ride has the status it had
C27_Witness ==
    /\ last.resource = "rides" /\ last.op = "partial_update"
    /\ last.status = "bad_request"
    /\ last.data = [field |-> "status", value |-> "cancelled"]
    /\ last.id \in DOMAIN rides
    /\ rides[last.id].status \in STATUS_CHOICES

\* the stored events that are older than 24 hours
Old == {e \in DOMAIN events : events[e].created_at < now - WINDOW}

\* an admin's retrieve, PUT, PATCH or DELETE on /ride-events/{id} has been
\* handled in this step
EventDetailHandled(id) ==
    /\ Handled
    /\ CallerIsAdmin
    /\ last'.resource = "ride-events"
    /\ last'.op \in {"retrieve", "update", "partial_update", "destroy"}
    /\ last'.id = id

\* DELETE of the ride, or of a user who is rider or driver of the ride, has
\* been served in this step
RideDeleted(ride) ==
    /\ Handled
    /\ last'.op = "destroy" /\ last'.status = "no_content"
    /\ \/ last'.resource = "rides" /\ last'.id = ride
       \/ last'.resource = "users"
          /\ last'.id \in {rides[ride].id_rider, rides[ride].id_driver}

\* C28: for an event older than 24 hours, retrieve, PUT, PATCH and DELETE on
\* /ride-events/{id} answer not-found and change no event; the event stays
\* stored as it is through every step, except that it goes with its ride when
\* the ride, or the rider or driver of the ride, is deleted
C28_OldEventOutOfReach ==
    [][\A e \in Old :
          /\ EventDetailHandled(e) =>
                /\ last'.status = "not_found"
                /\ events' = events
          /\ e \in DOMAIN events' => events'[e] = events[e]
          /\ e \notin DOMAIN events' =>
                /\ RideDeleted(events[e].id_ride)
                /\ events[e].id_ride \notin DOMAIN rides']_vars

\* an admin's DELETE of an event older than 24 hours has been answered
\* not-found and the event is still stored
C28_Witness ==
    /\ last.resource = "ride-events" /\ last.op = "destroy"
    /\ last.status = "not_found"
    /\ last.id \in Old

\* the stored users whose role is admin
Admins == {u \in DOMAIN users : users[u].role = "admin"}
AdminsAfter == {u \in DOMAIN users' : users'[u].role = "admin"}

Step(p) == ListCount(p) \/ ListSet(p) \/ ListFetch(p)

Held(p) == inflight[p].count

C26_NeverBlocked ==
    \A p \in Workers : (Running(p, "count") \/ Running(p, "set") \/ Running(p, "fetch"))
                          => ENABLED Step(p)

C26_Steps ==
    \A p \in Workers :
        /\ Running(p, "count") /\ p \in DOMAIN inflight' /\ inflight'[p].pc = "set"
              => inflight'[p].count = Cardinality(matching(inflight[p].query))
        /\ (Running(p, "set") \/ Running(p, "fetch")) /\ p \in DOMAIN inflight'
              => /\ inflight'[p].pc \in {"set", "fetch", "respond"}
                 /\ inflight'[p].count = Held(p)
        /\ Running(p, "set") /\ inflight'[p].pc = "fetch"
              => /\ cache_key(inflight[p].query) \in DOMAIN cache'
                 /\ cache'[cache_key(inflight[p].query)].count = Held(p)
        /\ Running(p, "respond") /\ p \notin DOMAIN inflight'
                                 /\ has_permission(inflight[p].caller)
              => /\ last'.status = "ok"
                 /\ last'.body.count = Held(p)

C26_CountCacheRaceBenign == []C26_NeverBlocked /\ [][C26_Steps]_vars

\* both workers missed the cache on the same query, counted different numbers
\* of rows and wrote them one after the other; the entry holds the later one
C26_Witness ==
    /\ Running("w1", "fetch") /\ Running("w2", "fetch")
    /\ inflight["w1"].query = inflight["w2"].query
    /\ inflight["w1"].count # inflight["w2"].count
    /\ now = 0
    /\ cache[cache_key(inflight["w2"].query)].count = inflight["w2"].count

\* C29: referential integrity holds in every reachable state, whatever the
\* interleaving of the requests: while rides are created and updated, events
\* are added and users and rides are deleted by workers whose steps interleave,
\* every stored ride references two stored users and every stored event
\* references a stored ride.
C29_ReferentialIntegrity ==
    /\ \A r \in DOMAIN rides : {rides[r].id_rider, rides[r].id_driver} \subseteq DOMAIN users
    /\ \A e \in DOMAIN events : events[e].id_ride \in DOMAIN rides

\* a write that passed validation lost the race against a delete: the row it
\* references went away before the save, and the database refused the row
Refused(p) ==
    /\ Running(p, "respond")
    /\ inflight[p].op \in {"create", "update"}
    /\ inflight[p].response.status = "server_error"

C29_Witness ==
    /\ Refused("w1")
    /\ inflight["w1"].resource = "rides"
    /\ 2 \notin DOMAIN users
    /\ 2 \in {inflight["w1"].row.id_rider, inflight["w1"].row.id_driver}

====
